---- MODULE Spec2Model ----
(***************************************************************************)
(* Model of the scoring-and-clustering engine of the trend service:        *)
(*   - buildTrendTopics (src/topics/buildTrendTopics.js): the checks of    *)
(*     the arguments, tokenising, keyword signatures, greedy Jaccard       *)
(*     clustering, the record of every cluster, the sort and truncation;   *)
(*   - scoreItemsComparable (src/editorial/buildEditorial.js): raw scores, *)
(*     grouping by platform, tie-aware mid-rank percentiles, trendScore.   *)
(* Text is modelled as TLA+ strings, processed character by character the  *)
(* way the JavaScript string methods and regular expressions process it.   *)
(* A JavaScript Set is modelled as a duplicate-free sequence, because a    *)
(* Set iterates in insertion order and the code depends on that order.     *)
(* Ratios (similarities, percentiles, scores) are fractions <<num, den>>.  *)
(***************************************************************************)
EXTENDS Integers, Sequences, FiniteSets, TLC

(***************************************************************************)
(* Bounds of the model                                                     *)
(***************************************************************************)
MaxItems == 3      \* items of a call that mixes all kinds of items
MaxRuns == 2       \* invocations on the same arguments
MaxMembers == 9    \* items of a call whose items all join one cluster
MaxCopies == 25    \* copies of one item in a call
MaxSizeBetween == 2  \* items of a call whose repetition another call separates

(***************************************************************************)
(* Values of JavaScript that are not strings or numbers                    *)
(***************************************************************************)
Undefined == "<undefined>"

Range(s) == {s[i] : i \in 1..Len(s)}

Min(a, b) == IF a <= b THEN a ELSE b

\* the k-th smallest element of a set of integers
NthOf(set, k) == CHOOSE x \in set : Cardinality({y \in set : y < x}) = k - 1

\* a function as an explicit table: every value is computed once
Tabulated(f) == f @@ << >>

(***************************************************************************)
(* Text: normalizeText, extractTokens, topKeywords                         *)
(***************************************************************************)
STOPWORDS == {
    "a", "an", "the", "and", "or", "but", "if", "then", "else", "when", "while", "with", "without",
    "to", "of", "in", "on", "for", "from", "by", "as", "at", "is", "are", "was", "were", "be", "been",
    "this", "that", "these", "those", "it", "its", "you", "your", "we", "our", "they", "their", "not", "no",
    "yes", "new", "latest", "live", "update", "breaking", "today" }

UpperAlpha == {"A", "B", "C", "D", "E", "F", "G", "H", "I", "J", "K", "L", "M", "N", "O", "P", "Q", "R", "S", "T", "U", "V", "W", "X", "Y", "Z"}

Alphabet == "ABCDEFGHIJKLMNOPQRSTUVWXYZabcdefghijklmnopqrstuvwxyz"

\* the lower-case letter of an upper-case one: 26 places further on
UpperToLower ==
    Tabulated([u \in UpperAlpha |->
                  LET p == CHOOSE q \in 1..26 : SubSeq(Alphabet, q, q) = u
                  IN  SubSeq(Alphabet, p + 26, p + 26)])

LowerAlpha == {"a", "b", "c", "d", "e", "f", "g", "h", "i", "j", "k", "l", "m", "n", "o", "p", "q", "r", "s", "t", "u", "v", "w", "x", "y", "z"}

Digit == {"0", "1", "2", "3", "4", "5", "6", "7", "8", "9"}

Whitespace == {" ", "\t", "\n"}

CharAt(s, p) == SubSeq(s, p, p)

\* String.prototype.toLowerCase on ASCII text, half by half
RECURSIVE toLowerCase(_)
toLowerCase(s) ==
    IF Len(s) = 0 THEN ""
    ELSE IF Len(s) = 1 THEN (IF s \in DOMAIN UpperToLower THEN UpperToLower[s] ELSE s)
    ELSE LET half == Len(s) \div 2
         IN  toLowerCase(SubSeq(s, 1, half)) \o toLowerCase(SubSeq(s, half + 1, Len(s)))

\* does the literal lit occur in s at position p
MatchAt(s, p, lit) ==
    /\ p + Len(lit) - 1 <= Len(s)
    /\ SubSeq(s, p, p + Len(lit) - 1) = lit

\* number of non-whitespace characters of s from position p on (greedy \S+)
NonSpaceRun(s, p) ==
    LET stops == {q \in p..Len(s) : CharAt(s, q) \in Whitespace}
    IN  IF p > Len(s) THEN 0
        ELSE IF stops = {} THEN Len(s) + 1 - p
        ELSE (CHOOSE q \in stops : \A r \in stops : q <= r) - p

\* length of the match of /https?:\/\/\S+/ at position p, 0 when none
UrlMatchLen(s, p) ==
    LET scheme == IF MatchAt(s, p, "https://") THEN 8
                  ELSE IF MatchAt(s, p, "http://") THEN 7 ELSE 0
        rest == IF scheme = 0 THEN 0 ELSE NonSpaceRun(s, p + scheme)
    IN  IF scheme > 0 /\ rest > 0 THEN scheme + rest ELSE 0

\* .replace(/https?:\/\/\S+/g, " ")  from position p on, match by match
RECURSIVE StripUrls(_, _)
StripUrls(s, p) ==
    LET starts == {q \in p..Len(s) : UrlMatchLen(s, q) > 0}
    IN  IF p > Len(s) THEN ""
        ELSE IF starts = {} THEN SubSeq(s, p, Len(s))
        ELSE LET first == CHOOSE q \in starts : \A r \in starts : q <= r
             IN  SubSeq(s, p, first - 1) \o " " \o StripUrls(s, first + UrlMatchLen(s, first))

\* .replace(/[^a-z0-9\s]/g, " "), half by half
RECURSIVE StripNonAlnum(_)
StripNonAlnum(s) ==
    IF Len(s) = 0 THEN ""
    ELSE IF Len(s) = 1 THEN (IF s \in LowerAlpha \cup Digit \cup Whitespace THEN s ELSE " ")
    ELSE LET half == Len(s) \div 2
         IN  StripNonAlnum(SubSeq(s, 1, half)) \o StripNonAlnum(SubSeq(s, half + 1, Len(s)))

\* .replace(/\s+/g, " "), half by half; inRun: the character before s is
\* whitespace
RECURSIVE CollapseSpaces(_, _)
CollapseSpaces(s, inRun) ==
    IF Len(s) = 0 THEN ""
    ELSE IF Len(s) = 1
         THEN (IF s \in Whitespace THEN (IF inRun THEN "" ELSE " ") ELSE s)
    ELSE LET half == Len(s) \div 2
         IN  CollapseSpaces(SubSeq(s, 1, half), inRun)
                 \o CollapseSpaces(SubSeq(s, half + 1, Len(s)), CharAt(s, half) \in Whitespace)

RECURSIVE TrimStart(_)
TrimStart(s) ==
    IF Len(s) > 0 /\ CharAt(s, 1) \in Whitespace THEN TrimStart(Tail(s)) ELSE s

RECURSIVE TrimEnd(_)
TrimEnd(s) ==
    IF Len(s) > 0 /\ CharAt(s, Len(s)) \in Whitespace
    THEN TrimEnd(SubSeq(s, 1, Len(s) - 1)) ELSE s

\* String.prototype.trim
Trim(s) == TrimEnd(TrimStart(s))

normalizeText(s) ==
    Trim(CollapseSpaces(StripNonAlnum(StripUrls(toLowerCase(s), 1)), FALSE))

\* txt.split(" ").filter(Boolean): the non-empty pieces between single
\* spaces, cur being the piece in progress before s
SplitWords(s, cur) ==
    LET txt == cur \o s
        starts == {p \in 1..Len(txt) :
                      CharAt(txt, p) # " " /\ (p = 1 \/ CharAt(txt, p - 1) = " ")}
        EndOf(p) ==
            LET spaces == {q \in p..Len(txt) : CharAt(txt, q) = " "}
            IN  IF spaces = {} THEN Len(txt)
                ELSE (CHOOSE q \in spaces : \A r \in spaces : q <= r) - 1
    IN  [k \in 1..Cardinality(starts) |->
            SubSeq(txt, NthOf(starts, k), EndOf(NthOf(starts, k)))]

\* .filter(t => t.length >= 3 && !STOPWORDS.has(t))
RECURSIVE FilterTokens(_)
FilterTokens(parts) ==
    IF parts = << >> THEN << >>
    ELSE (IF Len(Head(parts)) >= 3 /\ Head(parts) \notin STOPWORDS
          THEN <<Head(parts)>> ELSE << >>) \o FilterTokens(Tail(parts))

\* Array.prototype.slice(0, k)
Slice0(seq, k) == SubSeq(seq, 1, Min(k, Len(seq)))

\* `${x}` of a template literal
TemplateStr(x) == IF x = Undefined THEN "undefined" ELSE x

TokenCap == 80

extractTokens(title, summary) ==
    LET sum == IF summary = Undefined THEN "" ELSE summary
        txt == normalizeText(TemplateStr(title) \o " " \o TemplateStr(sum))
        parts == SplitWords(txt, "")
    IN  Slice0(FilterTokens(parts), TokenCap)

\* keys of the frequency Map, in first-insertion order
FirstSeen(tokens, acc) ==
    LET firsts == {p \in 1..Len(tokens) :
                      /\ tokens[p] \notin Range(acc)
                      /\ \A q \in 1..(p - 1) : tokens[q] # tokens[p]}
    IN  acc \o [k \in 1..Cardinality(firsts) |-> tokens[NthOf(firsts, k)]]

Freq(tokens, t) == Cardinality({i \in 1..Len(tokens) : tokens[i] = t})

\* [...freq.entries()]: the [token, count] pairs in first-insertion order
FreqEntries(tokens) ==
    LET keys == FirstSeen(tokens, << >>)
    IN  [i \in 1..Len(keys) |-> <<keys[i], Freq(tokens, keys[i])>>]

\* stable insertion of entry e into a list sorted by count descending
RECURSIVE InsertByCountDesc(_, _)
InsertByCountDesc(seq, e) ==
    IF seq = << >> THEN <<e>>
    ELSE IF e[2] > Head(seq)[2] THEN <<e>> \o seq
         ELSE <<Head(seq)>> \o InsertByCountDesc(Tail(seq), e)

\* .sort((a, b) => b[1] - a[1]): stable, by count descending
RECURSIVE SortByCountDesc(_)
SortByCountDesc(seq) ==
    IF seq = << >> THEN << >>
    ELSE InsertByCountDesc(SortByCountDesc(SubSeq(seq, 1, Len(seq) - 1)), seq[Len(seq)])

topKeywords(tokens, k) ==
    LET top == Slice0(SortByCountDesc(FreqEntries(tokens)), k)
    IN  [i \in 1..Len(top) |-> top[i][1]]

(***************************************************************************)
(* JavaScript Set as a duplicate-free sequence in insertion order          *)
(***************************************************************************)
SetHas(set, x) == x \in Range(set)

SetAdd(set, x) == IF SetHas(set, x) THEN set ELSE Append(set, x)

\* new Set(iterable), and  for (const t of iterable) set.add(t)
SetAddAll(set, xs) == FirstSeen(xs, set)

NewSet(xs) == SetAddAll(<< >>, xs)

\* the arrangements of the elements of a duplicate-free sequence
Orderings(seq) ==
    {p \in [1..Len(seq) -> Range(seq)] : \A x \in Range(seq) : \E m \in 1..Len(seq) : p[m] = x}

(***************************************************************************)
(* Fractions <<num, den>> with den > 0                                     *)
(***************************************************************************)
FracGt(a, b) == a[1] * b[2] > b[1] * a[2]

FracGe(a, b) == a[1] * b[2] >= b[1] * a[2]

FracEq(a, b) == a[1] * b[2] = b[1] * a[2]

Zero == <<0, 1>>

\* variant: the overlap is divided by the smaller size instead of the union
jaccard_OverSmaller(aSet, bSet) ==
    LET inter == Cardinality({i \in 1..Len(aSet) : SetHas(bSet, aSet[i])})
        smaller == Min(Len(aSet), Len(bSet))
    IN  IF smaller = 0 THEN Zero ELSE <<inter, smaller>>

jaccard(aSet, bSet) ==
    LET inter == Cardinality({i \in 1..Len(aSet) : SetHas(bSet, aSet[i])})
        union == Len(aSet) + Len(bSet) - inter
    IN  IF union = 0 THEN Zero ELSE <<inter, union>>

SignatureSize == 12

DefaultSimilarityThreshold == <<55, 100>>

(***************************************************************************)
(* JavaScript values of the scoring code.  A number is a fraction          *)
(* <<num, den>> in lowest terms with den > 0, NaN is <<0, 0>>; undefined   *)
(* is the empty tuple and a string s is <<s>>.                             *)
(***************************************************************************)
NaN == <<0, 0>>

One == <<1, 1>>

JsUndefined == << >>

JsString(str) == <<str>>

IsNaN(x) == x[2] = 0

Abs(n) == IF n < 0 THEN -n ELSE n

RECURSIVE GCD(_, _)
GCD(a, b) == IF b = 0 THEN a ELSE GCD(b, a % b)

\* the number n/d, d > 0
Num(n, d) == LET g == GCD(Abs(n), d) IN <<n \div g, d \div g>>

\* the least common denominator of two fractions
LCM(x, y) == (x \div GCD(x, y)) * y

NumAdd(a, b) ==
    IF IsNaN(a) \/ IsNaN(b) THEN NaN
    ELSE LET l == LCM(a[2], b[2])
         IN  Num(a[1] * (l \div a[2]) + b[1] * (l \div b[2]), l)

NumSub(a, b) ==
    IF IsNaN(a) \/ IsNaN(b) THEN NaN
    ELSE LET l == LCM(a[2], b[2])
         IN  Num(a[1] * (l \div a[2]) - b[1] * (l \div b[2]), l)

NumMul(a, b) ==
    IF IsNaN(a) \/ IsNaN(b) THEN NaN
    ELSE LET g1 == GCD(Abs(a[1]), b[2])
             g2 == GCD(Abs(b[1]), a[2])
         IN  Num((a[1] \div g1) * (b[1] \div g2), (a[2] \div g2) * (b[2] \div g1))

\* a / m for an integer m >= 0; 0 / 0 is NaN
NumDivInt(a, m) ==
    CASE IsNaN(a) -> NaN
      [] m > 0 -> Num(a[1], a[2] * m)
      [] m = 0 /\ a[1] = 0 -> NaN

\* comparisons of JavaScript: every comparison with NaN is false
NumLt(a, b) ==
    /\ ~IsNaN(a) /\ ~IsNaN(b)
    /\ LET l == LCM(a[2], b[2]) IN a[1] * (l \div a[2]) < b[1] * (l \div b[2])

NumLe(a, b) ==
    /\ ~IsNaN(a) /\ ~IsNaN(b)
    /\ LET l == LCM(a[2], b[2]) IN a[1] * (l \div a[2]) <= b[1] * (l \div b[2])

NumEq(a, b) ==
    /\ ~IsNaN(a) /\ ~IsNaN(b)
    /\ LET l == LCM(a[2], b[2]) IN a[1] * (l \div a[2]) = b[1] * (l \div b[2])

\* Math.max(0, Math.min(1, x))
clamp01(x) ==
    IF IsNaN(x) THEN NaN
    ELSE IF NumLt(x, Zero) THEN Zero
    ELSE IF NumLt(One, x) THEN One
    ELSE x

IsFalsy(v) ==
    \/ Len(v) = 0
    \/ Len(v) = 1 /\ v[1] = ""
    \/ Len(v) = 2 /\ (v[2] = 0 \/ v[1] = 0)

\* v || 0
OrZero(v) == IF IsFalsy(v) THEN Zero ELSE v

\* v ?? 0
NullishZero(v) == IF Len(v) = 0 THEN Zero ELSE v

\* Math.round(x): the integer nearest to x, halves rounded up
MathRound(x) == IF IsNaN(x) THEN NaN ELSE Num((2 * x[1] + x[2]) \div (2 * x[2]), 1)

DigitValue ==
    "0" :> 0 @@ "1" :> 1 @@ "2" :> 2 @@ "3" :> 3 @@ "4" :> 4 @@
    "5" :> 5 @@ "6" :> 6 @@ "7" :> 7 @@ "8" :> 8 @@ "9" :> 9

AllDigits(str) == \A p \in 1..Len(str) : CharAt(str, p) \in Digit

RECURSIVE ParseDigits(_, _)
ParseDigits(str, acc) ==
    IF Len(str) = 0 THEN acc
    ELSE ParseDigits(Tail(str), 10 * acc + DigitValue[CharAt(str, 1)])

\* Number(v): a number is itself, a string of digits its value, any other
\* string of the model NaN, undefined NaN
ToNumber(v) ==
    CASE Len(v) = 2 -> v
      [] Len(v) = 0 -> NaN
      [] Len(v) = 1 /\ Trim(v[1]) = "" -> Zero
      [] Len(v) = 1 /\ Trim(v[1]) # "" /\ AllDigits(Trim(v[1])) ->
             Num(ParseDigits(Trim(v[1]), 0), 1)
      [] OTHER -> NaN

(***************************************************************************)
(* freshness01 and rawScoreItem.  Time is counted in hours and the clock   *)
(* is read as DateNow during one call.  Math.exp and Math.log1p are        *)
(* computed where their value is exact: ages that are a multiple of the    *)
(* half-life, metric sums that are not strictly between 0 and the          *)
(* saturation level.  The inputs of the model stay within these cases.     *)
(***************************************************************************)
DateNow == 0

MissingDate == [kind |-> "missing", hoursAgo |-> 0]

InvalidDate == [kind |-> "invalid", hoursAgo |-> 0]

DateHoursAgo(h) == [kind |-> "date", hoursAgo |-> h]

\* variant: an item without a usable date counts as fresh
freshness01_MissingIsFresh(publishedAt, halfLifeHours, maxHours) ==
    IF publishedAt.kind # "date" THEN One
    ELSE IF publishedAt.hoursAgo <= 0 THEN One
    ELSE IF publishedAt.hoursAgo >= maxHours THEN Zero
    ELSE <<1, 2 ^ (publishedAt.hoursAgo \div halfLifeHours)>>

\* timestamp in hours, NaN for a missing or unparseable date
parseDateMs(dt) ==
    IF dt.kind = "date" THEN Num(DateNow - dt.hoursAgo, 1) ELSE NaN

\* Math.exp(-Math.log(2) * k) for a natural number k
HalfPow(k) == <<1, 2 ^ k>>

freshness01(publishedAt, halfLifeHours, maxHours) ==
    LET ts == parseDateMs(publishedAt)
        ageHrs == NumSub(Num(DateNow, 1), ts)
    IN  CASE IsNaN(ts) -> Zero
          [] ~IsNaN(ts) /\ NumLe(ageHrs, Zero) -> One
          [] ~IsNaN(ts) /\ NumLe(Num(maxHours, 1), ageHrs) -> Zero
          [] /\ ~IsNaN(ts)
             /\ NumLt(Zero, ageHrs)
             /\ NumLt(ageHrs, Num(maxHours, 1))
             /\ ageHrs[2] = 1
             /\ ageHrs[1] % halfLifeHours = 0 ->
                 clamp01(HalfPow(ageHrs[1] \div halfLifeHours))

\* clamp01(Math.log1p(x) / Math.log1p(level))
Log01(x, level) ==
    CASE IsNaN(x) -> NaN
      [] ~IsNaN(x) /\ NumLt(x, <<-1, 1>>) -> NaN
      [] ~IsNaN(x) /\ NumLe(<<-1, 1>>, x) /\ NumLe(x, Zero) -> Zero
      [] ~IsNaN(x) /\ NumLe(Num(level, 1), x) -> One

NoMetrics ==
    [velocity |-> JsUndefined, views |-> JsUndefined, likes |-> JsUndefined,
     comments |-> JsUndefined, sourceRank |-> JsUndefined, relevance |-> JsUndefined]

\* String(p || "unknown").toLowerCase().trim()
platformKey(p) ==
    Trim(toLowerCase(IF p = Undefined \/ p = "" THEN "unknown" ELSE p))

Pct(n) == Num(n, 100)

rawScoreItem(item) ==
    LET platform == platformKey(item.platform)
        publishedAt == item.publishedAt
        metrics == item.metrics
    IN  IF platform = "youtube" THEN
            LET f == freshness01(publishedAt, 24, 72)
                velocity == ToNumber(OrZero(metrics.velocity))
                views == ToNumber(OrZero(metrics.views))
                likes == ToNumber(OrZero(metrics.likes))
                comments == ToNumber(OrZero(metrics.comments))
                v01 == Log01(velocity, 50000)
                e01 == Log01(NumAdd(likes, NumMul(Num(2, 1), comments)), 200000)
                views01 == Log01(views, 5000000)
                raw == NumAdd(NumAdd(NumMul(Pct(55), v01), NumMul(Pct(30), e01)),
                              NumMul(Pct(15), views01))
            IN  clamp01(NumAdd(NumMul(Pct(85), raw), NumMul(Pct(15), f)))
        ELSE IF platform = "news" THEN
            LET f == freshness01(publishedAt, 36, 96)
                sourceRank == ToNumber(OrZero(metrics.sourceRank))
                relevance == ToNumber(OrZero(metrics.relevance))
                sr01 == clamp01(sourceRank)
                rel01 == clamp01(relevance)
            IN  clamp01(NumAdd(NumAdd(NumMul(Pct(75), f), NumMul(Pct(15), sr01)),
                               NumMul(Pct(10), rel01)))
        ELSE freshness01(publishedAt, 24, 72)

(***************************************************************************)
(* Inputs of scoreItemsComparable                                          *)
(***************************************************************************)
MaxScoreItems == 3

Saturating == Num(5000000, 1)

FullMetrics ==
    [NoMetrics EXCEPT !.velocity = Saturating, !.views = Saturating,
                      !.likes = Saturating, !.comments = JsString("5000000")]

ScoreItemPool == {
    [platform |-> " YouTube", publishedAt |-> DateHoursAgo(24), metrics |-> FullMetrics,
     googleTrends |-> One],
    [platform |-> "youtube", publishedAt |-> DateHoursAgo(24), metrics |-> FullMetrics,
     googleTrends |-> JsUndefined],
    [platform |-> "youtube", publishedAt |-> DateHoursAgo(48), metrics |-> NoMetrics,
     googleTrends |-> Num(1, 2)],
    [platform |-> "youtube", publishedAt |-> DateHoursAgo(24),
     metrics |-> [NoMetrics EXCEPT !.velocity = JsString("n/a")],
     googleTrends |-> JsUndefined],
    [platform |-> "news", publishedAt |-> DateHoursAgo(-1),
     metrics |-> [NoMetrics EXCEPT !.sourceRank = One, !.relevance = Num(1, 2)],
     googleTrends |-> Num(3, 2)],
    [platform |-> "News", publishedAt |-> DateHoursAgo(72), metrics |-> NoMetrics,
     googleTrends |-> JsUndefined],
    [platform |-> Undefined, publishedAt |-> InvalidDate, metrics |-> NoMetrics,
     googleTrends |-> JsUndefined],
    [platform |-> "reddit", publishedAt |-> DateHoursAgo(100), metrics |-> NoMetrics,
     googleTrends |-> JsUndefined] }

ScoreItemLists == UNION {[1..n -> ScoreItemPool] : n \in 0..MaxScoreItems}

(***************************************************************************)
(* Inputs of buildTrendTopics.  An item carries the fields the function    *)
(* reads; its sourceUrl is given by its place in the list, so that the     *)
(* URLs of one call are distinct, as they are after deduplication.         *)
(***************************************************************************)
DefaultMaxTopics == 30

DefaultHalfLifeHours == 24

DefaultMaxHours == 72

ThresholdValues == {Zero, <<1, 2>>, DefaultSimilarityThreshold}

SomeMetrics ==
    [NoMetrics EXCEPT !.velocity = Num(1000, 1), !.views = Num(100000, 1),
                      !.likes = Num(500, 1), !.comments = JsString("20")]

ItemPool == {
    [topicTitle |-> "Central Bank Raises Interest Rates", topicSummary |-> Undefined,
     platform |-> "youtube", author |-> " Alice", publishedAt |-> DateHoursAgo(24),
     metrics |-> SomeMetrics, trendScore |-> Num(900, 1)],
    [topicTitle |-> "Central bank hikes interest rate again,", topicSummary |-> "",
     platform |-> "news", author |-> "Reuters", publishedAt |-> DateHoursAgo(0),
     metrics |-> NoMetrics, trendScore |-> Num(700, 1)],
    [topicTitle |-> "Storm: coast", topicSummary |-> Undefined,
     platform |-> "news", author |-> "AP", publishedAt |-> DateHoursAgo(48),
     metrics |-> NoMetrics, trendScore |-> Num(400, 1)],
    [topicTitle |-> "Storm - city", topicSummary |-> Undefined,
     platform |-> "News ", author |-> "ap ", publishedAt |-> DateHoursAgo(24),
     metrics |-> NoMetrics, trendScore |-> Num(400, 1)],
    [topicTitle |-> "The storm", topicSummary |-> "https://t.co/Storm1",
     platform |-> "reddit", author |-> "", publishedAt |-> MissingDate,
     metrics |-> NoMetrics, trendScore |-> JsUndefined],
    [topicTitle |-> "aa1 aa2 aa3 aa4 aa5 aa6 aa7 aa8 aa9 bb1 bb2 bb3",
     topicSummary |-> Undefined,
     platform |-> "youtube", author |-> "bob", publishedAt |-> DateHoursAgo(24),
     metrics |-> [NoMetrics EXCEPT !.velocity = JsString("n/a")],
     trendScore |-> Num(100, 1)],
    [topicTitle |-> "aa1 aa2 aa3 aa4 aa5 aa6 aa7 aa8 aa9",
     topicSummary |-> "cc1 cc2 cc3 cc4",
     platform |-> "YouTube", author |-> "Bob", publishedAt |-> DateHoursAgo(-1),
     metrics |-> FullMetrics, trendScore |-> Num(1000, 1)],
    [topicTitle |-> "It is new", topicSummary |-> "",
     platform |-> Undefined, author |-> Undefined, publishedAt |-> InvalidDate,
     metrics |-> NoMetrics, trendScore |-> Zero] }

\* the items a large cluster is built from: they share the token storm
MemberPool == {it \in ItemPool : it.topicTitle \in {"Storm: coast", "The storm"}}

UrlOf(k) == "https://example.com/" \o ToString(k)

WithUrls(list) ==
    [k \in 1..Len(list) |->
        [topicTitle |-> list[k].topicTitle, topicSummary |-> list[k].topicSummary,
         platform |-> list[k].platform, author |-> list[k].author,
         publishedAt |-> list[k].publishedAt, metrics |-> list[k].metrics,
         trendScore |-> list[k].trendScore, sourceUrl |-> UrlOf(k)]]

ItemLists == {WithUrls(l) : l \in UNION {[1..n -> ItemPool] : n \in 0..MaxItems}}

MemberLists == {WithUrls(l) : l \in UNION {[1..n -> MemberPool] : n \in 1..MaxMembers}}

CopyLists == {WithUrls([k \in 1..n |-> it]) : it \in ItemPool, n \in 1..MaxCopies}

\* single items published at the cutoff age and 100 hours ago
AgedHours == {DefaultMaxHours, 100}

AgedLists ==
    {WithUrls(<<[it EXCEPT !.publishedAt = DateHoursAgo(h)]>>) :
        it \in MemberPool, h \in AgedHours}

\* a maxTopics below the number of clusters three items can form
SmallMaxTopics == 2

OptionValues == {[similarityThreshold |-> t, maxTopics |-> SmallMaxTopics] : t \in ThresholdValues}

IdValues == {"id-1", "", Undefined}

ItemsKinds == {"array", "object", "undefined"}

\* the call made between two calls with the same arguments
OtherCalls ==
    {[trendRunId |-> "id-2", projectId |-> "id-1", itemsKind |-> "array", items |-> l,
      options |-> [similarityThreshold |-> DefaultSimilarityThreshold,
                   maxTopics |-> DefaultMaxTopics]] :
         l \in {m \in MemberLists :
                  Len(m) = 2 /\ m[1].platform = "news" /\ m[2].platform = "reddit"}}

\* the calls of buildTrendTopics the model makes
Calls ==
    {[trendRunId |-> "id-1", projectId |-> "id-1", itemsKind |-> "array", items |-> l,
      options |-> o] : l \in ItemLists, o \in OptionValues}
    \cup
    {[trendRunId |-> "id-1", projectId |-> "id-1", itemsKind |-> "array", items |-> l,
      options |-> [similarityThreshold |-> Zero, maxTopics |-> DefaultMaxTopics]] :
         l \in MemberLists}
    \cup
    {[trendRunId |-> "id-1", projectId |-> "id-1", itemsKind |-> "array", items |-> l,
      options |-> [similarityThreshold |-> DefaultSimilarityThreshold,
                   maxTopics |-> DefaultMaxTopics]] : l \in CopyLists \cup AgedLists}
    \cup
    {[trendRunId |-> r, projectId |-> p, itemsKind |-> kd,
      items |-> IF kd = "array" THEN l ELSE << >>,
      options |-> [similarityThreshold |-> DefaultSimilarityThreshold,
                   maxTopics |-> DefaultMaxTopics]] :
         r \in IdValues, p \in IdValues, kd \in ItemsKinds,
         l \in {m \in ItemLists : Len(m) <= 1}}

(***************************************************************************)
(* State                                                                   *)
(***************************************************************************)
VARIABLES
    items,                \* the items argument of buildTrendTopics
    similarityThreshold,  \* options.similarityThreshold, a fraction
    pc,                   \* position in buildTrendTopics
    prepared,             \* items with their _keywords and _tokens
    pos,                  \* number of prepared items the loop has processed
    clusters,             \* the clusters array
    run,                  \* number of the current invocation on these arguments
    firstClusters,        \* clusters the first invocation ended with
    trendRunId,           \* the trendRunId argument
    projectId,            \* the projectId argument
    itemsKind,            \* what the items argument is: "array" or not
    maxTopics,            \* options.maxTopics
    error,                \* message of the Error thrown, "" when none
    topicRecords,         \* the topicRecords array
    result,               \* the returned list
    firstCall,            \* the arguments of the first invocation
    firstResult,          \* the list the first invocation returned
    sortMemo              \* what sort() made of the arrays it could order freely

VARIABLES
    batch,                \* the items argument of scoreItemsComparable
    spc,                  \* position in scoreItemsComparable
    rawScore,             \* _rawScore of every item, undefined until set
    platformPercentile,   \* _platformPercentile of every item, undefined until set
    byPlatform,           \* the byPlatform Map: [key, arr] in insertion order
    groupIdx,             \* index of the group assignPercentilesDesc works on
    loopI,                \* loop variable i of assignPercentilesDesc
    trendScore            \* trendScore of every item of the batch, once set

VARIABLES
    dedupeItems,          \* the items argument of dedupeByPlatformAndUrl
    dedupePos,            \* number of items the filter callback has seen
    seen,                 \* the seen Set, as the set of its keys
    kept                  \* the items the filter has kept so far

VARIABLES
    postRetries,          \* opts.retries of postToBase44WithBackoff
    attempt,              \* the loop variable attempt
    sent,                 \* what came back for every request sent, in order
    lastErr,              \* message of the Error in lastErr, "" while undefined
    postOutcome           \* "running", "returned" or "threw"; "idle" when not called

VARIABLES
    scanInput,            \* the request to POST /scan and the environment
    scanPc,               \* position in the middleware and the handler
    responses,            \* the HTTP responses sent for the request, in order
    collected,            \* TRUE once the collectors have been started
    posts,                \* the calls to Base44 started so far, in order
    failure               \* the step that failed: "none", "pipeline", "ingest", "topics"

VARIABLES
    xRegions,             \* fetchXTrends: the regions argument
    concurrency,          \* the concurrency argument
    iso2s,                \* the valid regions, trimmed and upper-cased
    nextIdx,              \* the shared counter i (1-based here)
    out,                  \* the rows collected so far
    memCache,             \* the regions with an entry in the module-level cache
    workers,              \* per worker: position in its loop and the region it fetches
    running,              \* the worker executing now, 0 when all are at an await
    started,              \* how many workers the map() callback has started
    claims,               \* <<index, worker>> for every index taken from the counter
    fetched,              \* the regions for which a fetch was started, in order
    xpc                   \* "idle", "call", "workers", "returned"

callVars == <<trendRunId, projectId, itemsKind, items, similarityThreshold, maxTopics>>

memoVars == <<firstCall, firstResult, sortMemo>>

topicVars == <<callVars, pc, prepared, pos, clusters, run, firstClusters, error,
               topicRecords, result, memoVars>>

scoreVars == <<batch, spc, rawScore, platformPercentile, byPlatform, groupIdx, loopI,
               trendScore>>

dedupeVars == <<dedupeItems, dedupePos, seen, kept>>

postVars == <<postRetries, attempt, sent, lastErr, postOutcome>>

scanVars == <<scanInput, scanPc, responses, collected, posts, failure>>

xVars ==
    <<xRegions, concurrency, iso2s, nextIdx, out, memCache, workers, running, started, claims,
      fetched, xpc>>

serviceVars == <<dedupeVars, postVars, scanVars, xVars>>

\* what an action of one part of the service leaves unchanged
notDedupe == <<topicVars, scoreVars, postVars, scanVars, xVars>>

notPost == <<topicVars, scoreVars, dedupeVars, scanVars, xVars>>

notScan == <<topicVars, scoreVars, dedupeVars, postVars, xVars>>

notX == <<topicVars, scoreVars, dedupeVars, postVars, scanVars>>

vars == <<topicVars, scoreVars, serviceVars>>

TopicsIdle ==
    /\ items = << >>
    /\ similarityThreshold = DefaultSimilarityThreshold
    /\ pc = "idle"
    /\ prepared = << >>
    /\ pos = 0
    /\ clusters = << >>
    /\ run = 1
    /\ firstClusters = << >>
    /\ trendRunId = Undefined
    /\ projectId = Undefined
    /\ itemsKind = "undefined"
    /\ maxTopics = DefaultMaxTopics
    /\ error = ""
    /\ topicRecords = << >>
    /\ result = << >>
    /\ firstCall = << >>
    /\ firstResult = << >>
    /\ sortMemo = {}

ScoreIdle ==
    /\ batch = << >>
    /\ spc = "idle"
    /\ rawScore = << >>
    /\ platformPercentile = << >>
    /\ byPlatform = << >>
    /\ groupIdx = 0
    /\ loopI = 0
    /\ trendScore = << >>

DedupeIdle ==
    /\ dedupeItems = << >>
    /\ dedupePos = 0
    /\ seen = {}
    /\ kept = << >>

PostIdle ==
    /\ postRetries = 0
    /\ attempt = 0
    /\ sent = << >>
    /\ lastErr = ""
    /\ postOutcome = "idle"

ScanIdle ==
    /\ scanInput = << >>
    /\ scanPc = "idle"
    /\ responses = << >>
    /\ collected = FALSE
    /\ posts = << >>
    /\ failure = "none"

XIdle ==
    /\ xRegions = << >>
    /\ concurrency = 0
    /\ iso2s = << >>
    /\ nextIdx = 1
    /\ out = << >>
    /\ memCache = {}
    /\ workers = << >>
    /\ running = 0
    /\ started = 0
    /\ claims = << >>
    /\ fetched = << >>
    /\ xpc = "idle"

ServiceIdle == DedupeIdle /\ PostIdle /\ ScanIdle /\ XIdle

(***************************************************************************)
(* buildTrendTopics: the checks of the arguments                           *)
(***************************************************************************)
\* !id for an id that is a string or undefined
Missing(id) == id = Undefined \/ id = ""

\* variant: the projectId is not checked
ArgumentError_NoProjectCheck(runId, projId, kind) ==
    IF Missing(runId) THEN "buildTrendTopics: missing trendRunId"
    ELSE IF kind # "array" THEN "buildTrendTopics: items must be an array"
    ELSE ""

\* the message of the Error the three checks throw, "" when they pass
ArgumentError(runId, projId, kind) ==
    IF Missing(runId) THEN "buildTrendTopics: missing trendRunId"
    ELSE IF Missing(projId) THEN "buildTrendTopics: missing projectId"
    ELSE IF kind # "array" THEN "buildTrendTopics: items must be an array"
    ELSE ""

Validate ==
    /\ pc = "start"
    /\ error' = ArgumentError(trendRunId, projectId, itemsKind)
    /\ pc' = IF error' = "" THEN "prepare" ELSE "threw"
    /\ UNCHANGED <<callVars, prepared, pos, clusters, run, firstClusters, topicRecords,
                   result, memoVars, scoreVars, serviceVars>>

(***************************************************************************)
(* buildTrendTopics: 1) prepare item signatures                            *)
(***************************************************************************)
\* variant: the signature is not capped at 12 keywords
PrepareItem_NoCap(it) ==
    LET tokens == extractTokens(it.topicTitle, it.topicSummary)
        kw == topKeywords(tokens, TokenCap)
    IN  [_tokens |-> NewSet(kw), _keywords |-> kw]

PrepareItem(it) ==
    LET tokens == extractTokens(it.topicTitle, it.topicSummary)
        kw == topKeywords(tokens, SignatureSize)
    IN  [_tokens |-> NewSet(kw), _keywords |-> kw]

\* PrepareItem is a pure function of the item: its values over the item pool
ContentOf(it) == [topicTitle |-> it.topicTitle, topicSummary |-> it.topicSummary]

PreparedOf == Tabulated([c \in {ContentOf(it) : it \in ItemPool} |-> PrepareItem(c)])

\* variant: the clusters array lives at module level and survives the call
Prepare_ModuleLevelClusters ==
    /\ pc = "prepare"
    /\ prepared' = [i \in 1..Len(items) |-> PreparedOf[ContentOf(items[i])]]
    /\ clusters' = clusters
    /\ pos' = 0
    /\ pc' = IF Len(items) = 0 THEN "clustered" ELSE "cluster"
    /\ UNCHANGED <<callVars, run, firstClusters, error, topicRecords, result, memoVars, scoreVars, serviceVars>>

\* variant: an empty items array is rejected
Prepare_EmptyIsAnError ==
    /\ pc = "prepare"
    /\ prepared' = [i \in 1..Len(items) |-> PreparedOf[ContentOf(items[i])]]
    /\ clusters' = << >>
    /\ pos' = 0
    /\ pc' = IF Len(items) = 0 THEN "threw" ELSE "cluster"
    /\ error' = IF Len(items) = 0 THEN "buildTrendTopics: no items" ELSE error
    /\ UNCHANGED <<callVars, run, firstClusters, topicRecords, result, memoVars, scoreVars, serviceVars>>

Prepare ==
    /\ pc = "prepare"
    /\ prepared' = [i \in 1..Len(items) |-> PreparedOf[ContentOf(items[i])]]
    /\ clusters' = << >>
    /\ pos' = 0
    /\ pc' = IF Len(items) = 0 THEN "clustered" ELSE "cluster"
    /\ UNCHANGED <<callVars, run, firstClusters, error, topicRecords, result, memoVars, scoreVars, serviceVars>>

(***************************************************************************)
(* buildTrendTopics: 2) cluster by Jaccard similarity                      *)
(***************************************************************************)
\* variant: candidates compared with >=, so the last maximal cluster wins
RECURSIVE ScanClusters_LastWins(_, _, _, _, _)
ScanClusters_LastWins(tokens, cs, i, bestIdx, bestSim) ==
    IF i >= Len(cs) THEN [bestIdx |-> bestIdx, bestSim |-> bestSim]
    ELSE LET sim == jaccard(tokens, cs[i + 1].signature)
         IN  IF FracGe(sim, bestSim)
             THEN ScanClusters_LastWins(tokens, cs, i + 1, i, sim)
             ELSE ScanClusters_LastWins(tokens, cs, i + 1, bestIdx, bestSim)

\* the inner for loop from index i (0-based) on, with the best found so far
RECURSIVE ScanClusters(_, _, _, _, _)
ScanClusters(tokens, cs, i, bestIdx, bestSim) ==
    IF i >= Len(cs) THEN [bestIdx |-> bestIdx, bestSim |-> bestSim]
    ELSE LET sim == jaccard(tokens, cs[i + 1].signature)
         IN  IF FracGt(sim, bestSim)
             THEN ScanClusters(tokens, cs, i + 1, i, sim)
             ELSE ScanClusters(tokens, cs, i + 1, bestIdx, bestSim)

BestCluster(tokens, cs) == ScanClusters(tokens, cs, 0, -1, Zero)

\* variant: the else is missing, a joining item also starts a cluster
AssignItem_NoElse(cs, k, it, threshold) ==
    LET best == BestCluster(it._tokens, cs)
        joined == IF best.bestIdx >= 0 /\ FracGe(best.bestSim, threshold)
                  THEN [cs EXCEPT ![best.bestIdx + 1] =
                           [items |-> Append(@.items, k),
                            signature |-> SetAddAll(@.signature, it._tokens)]]
                  ELSE cs
    IN  Append(joined, [items |-> <<k>>, signature |-> NewSet(it._tokens)])

\* variant: the threshold is compared with > instead of >=
AssignItem_StrictThreshold(cs, k, it, threshold) ==
    LET best == BestCluster(it._tokens, cs)
    IN  IF best.bestIdx >= 0 /\ FracGt(best.bestSim, threshold)
        THEN [cs EXCEPT ![best.bestIdx + 1] =
                 [items |-> Append(@.items, k),
                  signature |-> SetAddAll(@.signature, it._tokens)]]
        ELSE Append(cs, [items |-> <<k>>, signature |-> NewSet(it._tokens)])

\* variant: the signature is replaced by the joining item's instead of united
AssignItem_ReplaceSignature(cs, k, it, threshold) ==
    LET best == BestCluster(it._tokens, cs)
    IN  IF best.bestIdx >= 0 /\ FracGe(best.bestSim, threshold)
        THEN [cs EXCEPT ![best.bestIdx + 1] =
                 [items |-> Append(@.items, k),
                  signature |-> NewSet(it._tokens)]]
        ELSE Append(cs, [items |-> <<k>>, signature |-> NewSet(it._tokens)])

\* one iteration of  for (const it of prepared)
AssignItem(cs, k, it, threshold) ==
    LET best == BestCluster(it._tokens, cs)
    IN  IF best.bestIdx >= 0 /\ FracGe(best.bestSim, threshold)
        THEN [cs EXCEPT ![best.bestIdx + 1] =
                 [items |-> Append(@.items, k),
                  signature |-> SetAddAll(@.signature, it._tokens)]]
        ELSE Append(cs, [items |-> <<k>>, signature |-> NewSet(it._tokens)])

ClusterItem ==
    /\ pc = "cluster"
    /\ pos < Len(prepared)
    /\ clusters' = AssignItem(clusters, pos + 1, prepared[pos + 1], similarityThreshold)
    /\ pos' = pos + 1
    /\ pc' = IF pos + 1 = Len(prepared) THEN "clustered" ELSE "cluster"
    /\ UNCHANGED <<callVars, prepared, run, firstClusters, error, topicRecords, result,
                   memoVars, scoreVars, serviceVars>>

(***************************************************************************)
(* buildTrendTopics: 3) aggregate metrics per cluster.  Math.log1p is      *)
(* tabulated: Log1pRatio[<<x, level>>] is log1p(x) / log1p(level) in       *)
(* millionths, for the sums and counts the calls of the model produce.     *)
(***************************************************************************)
\* the rows <<x, level, ratio>> of the table
Log1pRows == {
    <<0, 50000, 0>>, <<1000, 50000, 638529>>, <<2000, 50000, 702546>>,
    <<3000, 50000, 740005>>, <<4000, 50000, 766585>>, <<5000, 50000, 787204>>,
    <<6000, 50000, 804052>>, <<7000, 50000, 818297>>, <<8000, 50000, 830637>>,
    <<9000, 50000, 841521>>, <<10000, 50000, 851258>>, <<11000, 50000, 860066>>,
    <<12000, 50000, 868107>>, <<13000, 50000, 875504>>, <<14000, 50000, 882353>>,
    <<15000, 50000, 888729>>, <<16000, 50000, 894694>>, <<17000, 50000, 900297>>,
    <<18000, 50000, 905579>>, <<19000, 50000, 910576>>, <<20000, 50000, 915316>>,
    <<21000, 50000, 919825>>, <<22000, 50000, 924125>>, <<23000, 50000, 928233>>,
    <<24000, 50000, 932166>>, <<25000, 50000, 935939>>, <<26000, 50000, 939564>>,
    <<5000000, 50000, 1425623>>, <<5001000, 50000, 1425641>>, <<5002000, 50000, 1425660>>,
    <<5003000, 50000, 1425678>>, <<10000000, 50000, 1489685>>, <<10001000, 50000, 1489695>>,
    <<10002000, 50000, 1489704>>, <<15000000, 50000, 1527160>>, <<15001000, 50000, 1527166>>,
    <<20000000, 50000, 1553748>>, <<25000000, 50000, 1574372>>, <<30000000, 50000, 1591223>>,
    <<35000000, 50000, 1605470>>, <<40000000, 50000, 1617811>>, <<45000000, 50000, 1628697>>,
    <<50000000, 50000, 1638435>>, <<55000000, 50000, 1647244>>, <<60000000, 50000, 1655285>>,
    <<65000000, 50000, 1662683>>, <<70000000, 50000, 1669533>>, <<75000000, 50000, 1675909>>,
    <<80000000, 50000, 1681874>>, <<85000000, 50000, 1687477>>, <<90000000, 50000, 1692760>>,
    <<95000000, 50000, 1697757>>, <<100000000, 50000, 1702498>>, <<105000000, 50000, 1707007>>,
    <<110000000, 50000, 1711306>>, <<115000000, 50000, 1715415>>, <<120000000, 50000, 1719348>>,
    <<125000000, 50000, 1723121>>, <<130000000, 50000, 1726746>>, <<0, 200000, 0>>,
    <<520, 200000, 512511>>, <<1040, 200000, 569219>>, <<1560, 200000, 602412>>,
    <<2080, 200000, 625967>>, <<2600, 200000, 644241>>, <<3120, 200000, 659172>>,
    <<3640, 200000, 671798>>, <<4160, 200000, 682735>>, <<4680, 200000, 692382>>,
    <<5200, 200000, 701012>>, <<5720, 200000, 708819>>, <<6240, 200000, 715946>>,
    <<6760, 200000, 722503>>, <<7280, 200000, 728573>>, <<7800, 200000, 734225>>,
    <<8320, 200000, 739512>>, <<8840, 200000, 744478>>, <<9360, 200000, 749160>>,
    <<9880, 200000, 753589>>, <<10400, 200000, 757791>>, <<10920, 200000, 761788>>,
    <<11440, 200000, 765599>>, <<11960, 200000, 769240>>, <<12480, 200000, 772727>>,
    <<13000, 200000, 776071>>, <<13520, 200000, 779284>>, <<10000000, 200000, 1320498>>,
    <<10000520, 200000, 1320502>>, <<10001040, 200000, 1320506>>, <<10001560, 200000, 1320510>>,
    <<20000000, 200000, 1377285>>, <<20000520, 200000, 1377287>>, <<20001040, 200000, 1377289>>,
    <<30000000, 200000, 1410503>>, <<30000520, 200000, 1410504>>, <<40000000, 200000, 1434072>>,
    <<50000000, 200000, 1452353>>, <<60000000, 200000, 1467290>>, <<70000000, 200000, 1479919>>,
    <<80000000, 200000, 1490859>>, <<90000000, 200000, 1500508>>, <<100000000, 200000, 1509140>>,
    <<110000000, 200000, 1516948>>, <<120000000, 200000, 1524077>>, <<130000000, 200000, 1530635>>,
    <<140000000, 200000, 1536706>>, <<150000000, 200000, 1542358>>, <<160000000, 200000, 1547646>>,
    <<170000000, 200000, 1552613>>, <<180000000, 200000, 1557295>>, <<190000000, 200000, 1561725>>,
    <<200000000, 200000, 1565927>>, <<210000000, 200000, 1569924>>, <<220000000, 200000, 1573736>>,
    <<230000000, 200000, 1577377>>, <<240000000, 200000, 1580864>>, <<250000000, 200000, 1584208>>,
    <<260000000, 200000, 1587422>>, <<0, 30, 0>>, <<1, 30, 201849>>,
    <<2, 30, 319923>>, <<3, 30, 403698>>, <<4, 30, 468679>>,
    <<5, 30, 521772>>, <<6, 30, 566662>>, <<7, 30, 605547>>,
    <<8, 30, 639846>>, <<9, 30, 670528>>, <<10, 30, 698283>>,
    <<11, 30, 723621>>, <<12, 30, 746930>>, <<13, 30, 768511>>,
    <<14, 30, 788602>>, <<15, 30, 807396>>, <<16, 30, 825051>>,
    <<17, 30, 841696>>, <<18, 30, 857440>>, <<19, 30, 872377>>,
    <<20, 30, 886585>>, <<21, 30, 900132>>, <<22, 30, 913077>>,
    <<23, 30, 925470>>, <<24, 30, 937358>>, <<25, 30, 948779>>,
    <<26, 30, 959770>>, <<1, 12, 270238>>, <<2, 12, 428317>>,
    <<3, 12, 540476>>, <<4, 12, 627474>>, <<0, 20, 0>>,
    <<1, 20, 227670>>, <<2, 20, 360849>>, <<3, 20, 455340>>,
    <<4, 20, 528634>>, <<5, 20, 588519>>, <<6, 20, 639151>>,
    <<7, 20, 683011>>, <<8, 20, 721698>>, <<9, 20, 756304>>,
    <<10, 20, 787610>>, <<11, 20, 816189>>, <<12, 20, 842480>>,
    <<13, 20, 866821>>, <<14, 20, 889483>>, <<15, 20, 910681>>,
    <<16, 20, 930594>>, <<17, 20, 949368>>, <<18, 20, 967127>>,
    <<19, 20, 983974>>, <<20, 20, 1000000>>, <<21, 20, 1015280>>,
    <<22, 20, 1029880>>, <<23, 20, 1043860>>, <<24, 20, 1057268>>,
    <<25, 20, 1070150>>, <<26, 20, 1082546>> }

Log1pRatio ==
    Tabulated([key \in {<<row[1], row[2]>> : row \in Log1pRows} |->
                  (CHOOSE row \in Log1pRows : <<row[1], row[2]>> = key)[3]])

\* Math.log1p(x) / Math.log1p(level)
LogRatio(x, level) ==
    CASE IsNaN(x) -> NaN
      [] ~IsNaN(x) /\ NumLt(x, <<-1, 1>>) -> NaN
      [] ~IsNaN(x) /\ x[2] = 1 /\ <<x[1], level>> \in DOMAIN Log1pRatio ->
             Num(Log1pRatio[<<x[1], level>>], 1000000)

NegInfinity == <<"-Infinity">>

Truthy(str) == str # Undefined /\ str # ""

\* String(it.author).trim().toLowerCase()
SourceKey(author) == toLowerCase(Trim(author))

freshness01FromPublishedAt(publishedAt, halfLifeHours, maxHours) ==
    freshness01(publishedAt, halfLifeHours, maxHours)

getMetrics(item) == item.metrics

\* the state of the loop over the members before its first iteration
LoopStart ==
    [platformCounts |-> << >>, sourceSet |-> << >>, newestPublishedAtMs |-> NegInfinity,
     bestItem |-> 0, ytVelocitySum |-> Zero, ytViewsSum |-> Zero, ytEngagementSum |-> Zero,
     newsCount |-> 0, newsSourceSet |-> << >>]

\* one iteration of  for (const it of clusterItems),  bestItem being the
\* position of the best member so far, 0 for null
LoopBody(acc, members, j) ==
    LET it == members[j]
        p == platformKey(it.platform)
        t == parseDateMs(it.publishedAt)
        m == getMetrics(it)
        count == IF p \in DOMAIN acc.platformCounts THEN acc.platformCounts[p] ELSE 0
        isNewer == /\ ~IsNaN(t)
                   /\ (acc.newestPublishedAtMs = NegInfinity
                          \/ NumLt(acc.newestPublishedAtMs, t))
        isBetter == \/ acc.bestItem = 0
                    \/ NumLt(NullishZero(members[acc.bestItem].trendScore),
                             NullishZero(it.trendScore))
    IN  [platformCounts |-> (p :> count + 1) @@ acc.platformCounts,
         sourceSet |-> IF Truthy(it.author) THEN SetAdd(acc.sourceSet, SourceKey(it.author))
                       ELSE acc.sourceSet,
         newestPublishedAtMs |-> IF isNewer THEN t ELSE acc.newestPublishedAtMs,
         bestItem |-> IF isBetter THEN j ELSE acc.bestItem,
         ytVelocitySum |-> IF p = "youtube"
                           THEN NumAdd(acc.ytVelocitySum, ToNumber(OrZero(m.velocity)))
                           ELSE acc.ytVelocitySum,
         ytViewsSum |-> IF p = "youtube"
                        THEN NumAdd(acc.ytViewsSum, ToNumber(OrZero(m.views)))
                        ELSE acc.ytViewsSum,
         ytEngagementSum |-> IF p = "youtube"
                             THEN NumAdd(acc.ytEngagementSum,
                                         NumAdd(ToNumber(OrZero(m.likes)),
                                                ToNumber(OrZero(m.comments))))
                             ELSE acc.ytEngagementSum,
         newsCount |-> IF p = "news" THEN acc.newsCount + 1 ELSE acc.newsCount,
         newsSourceSet |-> IF p = "news" /\ Truthy(it.author)
                           THEN SetAdd(acc.newsSourceSet, SourceKey(it.author))
                           ELSE acc.newsSourceSet]

\* the iterations lo to hi of the loop over the members, in order: those of
\* the first half of the range, then, from their result, those of the
\* second half
RECURSIVE MemberLoop(_, _, _, _)
MemberLoop(acc, members, lo, hi) ==
    IF lo > hi THEN acc
    ELSE IF lo = hi THEN LoopBody(acc, members, lo)
    ELSE LET mid == (lo + hi) \div 2
         IN  CHOOSE last \in {MemberLoop(half, members, mid + 1, hi) :
                                 half \in {MemberLoop(acc, members, lo, mid)}} : TRUE

\* the order of the characters of a token, for Array.prototype.sort
CharOrder == "0123456789abcdefghijklmnopqrstuvwxyz"

CharRank ==
    Tabulated([ch \in {CharAt(CharOrder, r) : r \in 1..Len(CharOrder)} |->
                  CHOOSE r \in 1..Len(CharOrder) : CharAt(CharOrder, r) = ch])

\* a < b from position p on, as the default comparison of sort() compares
\* two strings
RECURSIVE LessFrom(_, _, _)
LessFrom(a, b, p) ==
    IF p > Len(b) THEN FALSE
    ELSE IF p > Len(a) THEN TRUE
    ELSE IF CharAt(a, p) = CharAt(b, p) THEN LessFrom(a, b, p + 1)
    ELSE CharRank[CharAt(a, p)] < CharRank[CharAt(b, p)]

StringLess(a, b) == LessFrom(a, b, 1)

RECURSIVE InsertString(_, _)
InsertString(seq, x) ==
    IF seq = << >> THEN <<x>>
    ELSE IF StringLess(x, Head(seq)) THEN <<x>> \o seq
    ELSE <<Head(seq)>> \o InsertString(Tail(seq), x)

\* keywords.slice().sort()
RECURSIVE SortStrings(_)
SortStrings(seq) ==
    IF seq = << >> THEN << >>
    ELSE InsertString(SortStrings(SubSeq(seq, 1, Len(seq) - 1)), seq[Len(seq)])

\* seq.join(sep)
RECURSIVE Join(_, _)
Join(seq, sep) ==
    IF seq = << >> THEN ""
    ELSE IF Len(seq) = 1 THEN seq[1]
    ELSE seq[1] \o sep \o Join(Tail(seq), sep)

\* the first 16 hex digits of the SHA-1 of key: a value that is the same
\* for the same key and, in the model, different for different keys
Sha1Hex16(key) == [sha1 |-> key]

\* variant: the keywords are joined in the order given
hashTopicId_Unsorted(keywords) == Sha1Hex16(Join(keywords, "|"))

hashTopicId(keywords) == Sha1Hex16(Join(SortStrings(keywords), "|"))

MaxTopSourceUrls == 8

\* stable insertion of member x into a list sorted by trendScore descending
InsertByTrendScoreDesc(seq, x) ==
    LET notLower == {k \in 1..Len(seq) :
                        ~NumLt(NullishZero(seq[k].trendScore), NullishZero(x.trendScore))}
        at == IF notLower = {} THEN 0 ELSE NthOf(notLower, Cardinality(notLower))
    IN  SubSeq(seq, 1, at) \o <<x>> \o SubSeq(seq, at + 1, Len(seq))

\* the members lo to hi of seq inserted into sorted, in order: those of the
\* first half of the range, then, into their result, those of the second half
RECURSIVE InsertAllByTrendScoreDesc(_, _, _, _)
InsertAllByTrendScoreDesc(sorted, seq, lo, hi) ==
    IF lo > hi THEN sorted
    ELSE IF lo = hi THEN InsertByTrendScoreDesc(sorted, seq[lo])
    ELSE LET mid == (lo + hi) \div 2
         IN  CHOOSE last \in {InsertAllByTrendScoreDesc(half, seq, mid + 1, hi) :
                                 half \in {InsertAllByTrendScoreDesc(sorted, seq, lo, mid)}} :
                 TRUE

\* clusterItems.slice().sort((a, b) => (b.trendScore ?? 0) - (a.trendScore ?? 0))
SortByTrendScoreDesc(seq) == InsertAllByTrendScoreDesc(<< >>, seq, 1, Len(seq))

\* .map(x => x.sourceUrl).filter(Boolean)
RECURSIVE TruthyUrls(_)
TruthyUrls(seq) ==
    IF seq = << >> THEN << >>
    ELSE IF Truthy(Head(seq).sourceUrl) THEN <<Head(seq).sourceUrl>> \o TruthyUrls(Tail(seq))
    ELSE TruthyUrls(Tail(seq))

\* variant: the list is cut at 9
topSourceUrlsOf_CutAtNine(clusterItems) ==
    TruthyUrls(Slice0(SortByTrendScoreDesc(clusterItems), MaxTopSourceUrls + 1))

\* variant: the first 8 members are taken and then sorted
topSourceUrlsOf_SliceThenSort(clusterItems) ==
    TruthyUrls(SortByTrendScoreDesc(Slice0(clusterItems, MaxTopSourceUrls)))

topSourceUrlsOf(clusterItems) ==
    TruthyUrls(Slice0(SortByTrendScoreDesc(clusterItems), MaxTopSourceUrls))

\* new Date(newestPublishedAtMs).toISOString()
ToISOString(ts) == DateHoursAgo(DateNow - ts[1])

\* x.find(m => m.topicSummary)?.topicSummary
FirstSummary(seq) ==
    LET with == {p \in 1..Len(seq) : Truthy(seq[p].topicSummary)}
    IN  IF with = {} THEN Undefined ELSE seq[NthOf(with, 1)].topicSummary

saturationPenaltyOf(clusterSize) == clamp01(LogRatio(Num(clusterSize - 1, 1), 20))

youtubeStrengthOf(ytVelocitySum, ytEngagementSum) ==
    clamp01(NumAdd(NumMul(LogRatio(ytVelocitySum, 50000), Pct(60)),
                   NumMul(LogRatio(ytEngagementSum, 200000), Pct(40))))

\* newsSourceSet.size || 1
SizeOrOne(set) == IF Len(set) = 0 THEN 1 ELSE Len(set)

newsStrengthOf(newsCount, newsSourceSet) ==
    clamp01(NumAdd(NumMul(LogRatio(Num(newsCount, 1), 30), Pct(60)),
                   NumMul(LogRatio(Num(SizeOrOne(newsSourceSet), 1), 12), Pct(40))))

\* platformCounts.p || 0
CountOf(platformCounts, p) == IF p \in DOMAIN platformCounts THEN platformCounts[p] ELSE 0

\* variant: any two platforms confirm each other
confirmationScoreOf_AnyPlatform(platformCounts) ==
    clamp01(Num(Min(2, Cardinality(DOMAIN platformCounts)), 2))

confirmationScoreOf(platformCounts) ==
    LET hasYt == CountOf(platformCounts, "youtube") > 0
        hasNews == CountOf(platformCounts, "news") > 0
    IN  clamp01(NumAdd(IF hasYt THEN Num(1, 2) ELSE Zero, IF hasNews THEN Num(1, 2) ELSE Zero))

\* Math.round(1000 * clamp01(final01))
topicScoreOf(final01) == MathRound(NumMul(Num(1000, 1), clamp01(final01)))

\* the callback of clusters.map: the record of cluster c.  The fields
\* named ...Json in the source hold here the value that is serialised.
TopicRecord(c, its, runId, projId) ==
    LET clusterItems == [j \in 1..Len(c.items) |-> its[c.items[j]]]
        acc == MemberLoop(LoopStart, clusterItems, 1, Len(clusterItems))
        clusterSize == Len(clusterItems)
        sourceDiversity == Len(acc.sourceSet)
        freshnessScore ==
            IF acc.newestPublishedAtMs = NegInfinity THEN Zero
            ELSE freshness01FromPublishedAt(ToISOString(acc.newestPublishedAtMs),
                                            DefaultHalfLifeHours, DefaultMaxHours)
        saturation48h == clusterSize
        saturationPenalty == saturationPenaltyOf(saturation48h)
        youtubeStrength == youtubeStrengthOf(acc.ytVelocitySum, acc.ytEngagementSum)
        newsStrength == newsStrengthOf(acc.newsCount, acc.newsSourceSet)
        confirmationScore == confirmationScoreOf(acc.platformCounts)
        final01 ==
            NumSub(NumAdd(NumAdd(NumAdd(NumMul(Pct(40), youtubeStrength),
                                        NumMul(Pct(25), newsStrength)),
                                 NumMul(Pct(20), freshnessScore)),
                          NumMul(Pct(15), confirmationScore)),
                   NumMul(Pct(25), saturationPenalty))
        topicScore == topicScoreOf(final01)
        keywords == topKeywords(c.signature, 12)
        topicId == hashTopicId(keywords)
        topSourceUrls == topSourceUrlsOf(clusterItems)
        bestTitle == IF acc.bestItem = 0 THEN Undefined
                     ELSE clusterItems[acc.bestItem].topicTitle
        bestSummary == IF acc.bestItem = 0 THEN Undefined
                       ELSE clusterItems[acc.bestItem].topicSummary
        canonicalTitle ==
            IF Truthy(bestTitle) THEN bestTitle
            ELSE IF clusterSize > 0 /\ Truthy(clusterItems[1].topicTitle)
                 THEN clusterItems[1].topicTitle
            ELSE "Untitled topic"
        summary ==
            IF Truthy(bestSummary) THEN bestSummary
            ELSE IF Truthy(FirstSummary(clusterItems)) THEN FirstSummary(clusterItems)
            ELSE ""
    IN  [trendRunId |-> runId, projectId |-> projId, topicId |-> topicId,
         canonicalTitle |-> canonicalTitle, summary |-> summary,
         keywords |-> keywords, topSourceUrls |-> topSourceUrls,
         platformCounts |-> acc.platformCounts,
         sourceDiversity |-> sourceDiversity, clusterSize |-> clusterSize,
         freshnessScore |-> freshnessScore,
         saturation48h |-> saturation48h, saturationPenalty |-> saturationPenalty,
         youtubeSignals |-> [velocitySum |-> acc.ytVelocitySum, viewsSum |-> acc.ytViewsSum,
                             engagementSum |-> acc.ytEngagementSum],
         newsSignals |-> [articleCount |-> acc.newsCount,
                          sourceCount |-> Len(acc.newsSourceSet)],
         confirmationScore |-> confirmationScore,
         topicScore |-> topicScore,
         scoreBreakdown |-> [youtubeStrength |-> youtubeStrength,
                             newsStrength |-> newsStrength,
                             freshnessScore |-> freshnessScore,
                             confirmationScore |-> confirmationScore,
                             saturationPenalty |-> saturationPenalty,
                             final01 |-> final01],
         status |-> "CANDIDATE", selectedBy |-> "SYSTEM", llmNotes |-> ""]

Aggregate ==
    /\ pc = "clustered"
    /\ topicRecords' = [c \in 1..Len(clusters) |->
                            TopicRecord(clusters[c], items, trendRunId, projectId)]
    /\ pc' = "aggregated"
    /\ UNCHANGED <<callVars, prepared, pos, clusters, run, firstClusters, error, result,
                   memoVars, scoreVars, serviceVars>>

(***************************************************************************)
(* buildTrendTopics: 4) return top N topics.  Where the comparator meets a *)
(* NaN topicScore it returns NaN and the order sort() produces is          *)
(* implementation-defined: any order of the records is possible.           *)
(***************************************************************************)
\* stable insertion of record x into a list sorted by topicScore descending
RECURSIVE InsertByTopicScoreDesc(_, _)
InsertByTopicScoreDesc(seq, x) ==
    IF seq = << >> THEN <<x>>
    ELSE IF NumLt(NullishZero(seq[Len(seq)].topicScore), NullishZero(x.topicScore))
         THEN Append(InsertByTopicScoreDesc(SubSeq(seq, 1, Len(seq) - 1), x), seq[Len(seq)])
    ELSE Append(seq, x)

RECURSIVE SortByTopicScoreDesc(_)
SortByTopicScoreDesc(seq) ==
    IF seq = << >> THEN << >>
    ELSE InsertByTopicScoreDesc(SortByTopicScoreDesc(SubSeq(seq, 1, Len(seq) - 1)),
                                seq[Len(seq)])

\* the orders topicRecords.sort(...) can leave the records in
TopicSortOutcomes(records) ==
    IF \E r \in 1..Len(records) : IsNaN(records[r].topicScore)
    THEN {[r \in 1..Len(records) |-> records[o[r]]] : o \in Orderings([r \in 1..Len(records) |-> r])}
    ELSE {SortByTopicScoreDesc(records)}

\* variant: a module-level budget, an invocation returns one topic less
\* than the invocation before it
SliceTopics_SharedBudget(records, n) == Slice0(records, n - (run - 1))

\* topicRecords.slice(0, maxTopics)
SliceTopics(records, n) == Slice0(records, n)

\* the arguments of the running invocation
CallArgs ==
    [trendRunId |-> trendRunId, projectId |-> projectId, itemsKind |-> itemsKind,
     items |-> items,
     options |-> [similarityThreshold |-> similarityThreshold, maxTopics |-> maxTopics]]

\* sort() is a function of the array and the comparator: where the order is
\* implementation-defined, what it made of an array before it makes again
SortAndSlice ==
    /\ pc = "aggregated"
    /\ \E sorted \in TopicSortOutcomes(topicRecords) :
         /\ \A m \in sortMemo : m.input = topicRecords => m.output = sorted
         /\ sortMemo' = IF \E r \in 1..Len(topicRecords) : IsNaN(topicRecords[r].topicScore)
                        THEN sortMemo \cup {[input |-> topicRecords, output |-> sorted]}
                        ELSE sortMemo
         /\ topicRecords' = sorted
         /\ result' = SliceTopics(sorted, maxTopics)
    /\ firstResult' = IF run = 1 /\ CallArgs = firstCall THEN result' ELSE firstResult
    /\ pc' = "returned"
    /\ UNCHANGED <<callVars, prepared, pos, clusters, run, firstClusters, error, firstCall,
                   scoreVars, serviceVars>>

(***************************************************************************)
(* Further invocations of buildTrendTopics.  The function is synchronous:  *)
(* an invocation starts when the one before it has returned.  Reinvoke     *)
(* calls it again with the arguments of the first invocation, InvokeOther  *)
(* calls it with other arguments between the first and the second of      *)
(* these.  The variables of a returned invocation are left as they are:    *)
(* the code that runs next decides what it reads of them.                  *)
(***************************************************************************)
\* the invocation starts with these arguments
Invoke(call) ==
    /\ trendRunId' = call.trendRunId
    /\ projectId' = call.projectId
    /\ itemsKind' = call.itemsKind
    /\ items' = call.items
    /\ similarityThreshold' = call.options.similarityThreshold
    /\ maxTopics' = call.options.maxTopics
    /\ pc' = "start"
    /\ topicRecords' = << >>
    /\ result' = << >>

Reinvoke ==
    /\ pc = "returned"
    /\ run < MaxRuns
    /\ run' = run + 1
    /\ firstClusters' = IF run = 1 /\ CallArgs = firstCall THEN clusters ELSE firstClusters
    /\ Invoke(firstCall)
    /\ UNCHANGED <<prepared, pos, clusters, error, memoVars, scoreVars, serviceVars>>

InvokeOther ==
    /\ pc = "returned"
    /\ run = 1
    /\ run < MaxRuns
    /\ CallArgs = firstCall
    /\ Len(items) <= MaxSizeBetween
    /\ firstClusters' = clusters
    /\ \E call \in OtherCalls : Invoke(call)
    /\ UNCHANGED <<prepared, pos, clusters, error, run, memoVars, scoreVars, serviceVars>>

InitTopics ==
    /\ \E call \in Calls :
         /\ trendRunId = call.trendRunId
         /\ projectId = call.projectId
         /\ itemsKind = call.itemsKind
         /\ items = call.items
         /\ similarityThreshold = call.options.similarityThreshold
         /\ maxTopics = call.options.maxTopics
         /\ firstCall = call
    /\ pc = "start"
    /\ prepared = << >>
    /\ pos = 0
    /\ clusters = << >>
    /\ run = 1
    /\ firstClusters = << >>
    /\ error = ""
    /\ topicRecords = << >>
    /\ result = << >>
    /\ firstResult = << >>
    /\ sortMemo = {}
    /\ ScoreIdle
    /\ ServiceIdle

NextTopics ==
    Validate \/ Prepare \/ ClusterItem \/ Aggregate \/ SortAndSlice \/ Reinvoke \/ InvokeOther

SpecTopics == InitTopics /\ [][NextTopics]_vars

(***************************************************************************)
(* scoreItemsComparable: 1) raw scores, 2) groups, 3) percentiles          *)
(***************************************************************************)
\* rawScoreItem is a pure function of the item: its values over the pool
RawScoreOf == Tabulated([it \in ScoreItemPool |-> rawScoreItem(it)])

ScoreRaw ==
    /\ spc = "start"
    /\ IF Len(batch) = 0
       THEN /\ spc' = "returned"
            /\ UNCHANGED rawScore
       ELSE /\ rawScore' = [k \in 1..Len(batch) |-> RawScoreOf[batch[k]]]
            /\ spc' = "group"
    /\ UNCHANGED <<batch, platformPercentile, byPlatform, groupIdx, loopI, trendScore,
                   topicVars, serviceVars>>

\* index of key p in the Map, 0 when absent
MapIndex(map, p) ==
    IF \E m \in 1..Len(map) : map[m].key = p
    THEN CHOOSE m \in 1..Len(map) : map[m].key = p
    ELSE 0

\* platformKey is a pure function of the platform: its values over the pool
PlatformKeyOf ==
    Tabulated([p \in {it.platform : it \in ScoreItemPool} |-> platformKey(p)])

\* byPlatform after the loop body has handled item k
GroupStep(map, its, k) ==
    LET p == PlatformKeyOf[its[k].platform]
        m == MapIndex(map, p)
    IN  IF m = 0 THEN Append(map, [key |-> p, arr |-> <<k>>])
        ELSE [map EXCEPT ![m].arr = Append(@, k)]

\* the loop  for (const it of items)  that fills byPlatform, from item k on
RECURSIVE GroupFrom(_, _, _)
GroupFrom(its, k, map) ==
    IF k > Len(its) THEN map
    ELSE CHOOSE last \in {GroupFrom(its, k + 1, next) :
                             next \in {GroupStep(map, its, k)}} : TRUE

GroupByPlatform ==
    /\ spc = "group"
    /\ byPlatform' = GroupFrom(batch, 1, << >>)
    /\ groupIdx' = 1
    /\ spc' = "sort"
    /\ UNCHANGED <<batch, rawScore, platformPercentile, loopI, trendScore, topicVars, serviceVars>>

\* the comparator (b._rawScore ?? 0) - (a._rawScore ?? 0) is positive
ComesBefore(b, a, raw) == NumLt(raw[a], raw[b])

\* stable insertion of item x into a list sorted by raw score descending
RECURSIVE InsertByRawDesc(_, _, _)
InsertByRawDesc(seq, x, raw) ==
    IF seq = << >> THEN <<x>>
    ELSE IF ComesBefore(x, Head(seq), raw) THEN <<x>> \o seq
         ELSE <<Head(seq)>> \o InsertByRawDesc(Tail(seq), x, raw)

\* variant: the comparator is a - b, the list ends sorted ascending
RECURSIVE InsertByRawAsc(_, _, _)
InsertByRawAsc(seq, x, raw) ==
    IF seq = << >> THEN <<x>>
    ELSE IF ComesBefore(Head(seq), x, raw) THEN <<x>> \o seq
         ELSE <<Head(seq)>> \o InsertByRawAsc(Tail(seq), x, raw)

RECURSIVE SortByRawDesc_Ascending(_, _)
SortByRawDesc_Ascending(seq, raw) ==
    IF seq = << >> THEN << >>
    ELSE InsertByRawAsc(SortByRawDesc_Ascending(SubSeq(seq, 1, Len(seq) - 1), raw),
                        seq[Len(seq)], raw)

\* arr.sort(...) with a consistent comparator: stable, descending
RECURSIVE SortByRawDesc(_, _)
SortByRawDesc(seq, raw) ==
    IF seq = << >> THEN << >>
    ELSE InsertByRawDesc(SortByRawDesc(SubSeq(seq, 1, Len(seq) - 1), raw),
                         seq[Len(seq)], raw)

\* The comparator returns NaN when a raw score is NaN; sort treats NaN as
\* 0, the comparator is then not consistent and the resulting order is
\* implementation-defined: any order of the elements.
SortOutcomes(seq, raw) ==
    IF \E m \in 1..Len(seq) : IsNaN(raw[seq[m]])
    THEN Orderings(seq)
    ELSE {SortByRawDesc(seq, raw)}

\* the position after group m: the next group, or step 4 after the last
AfterGroup(m) == IF m = Len(byPlatform) THEN "final" ELSE "sort"

\* assignPercentilesDesc: the sort and the n === 1 case
SortGroup ==
    /\ spc = "sort"
    /\ \E sorted \in SortOutcomes(byPlatform[groupIdx].arr, rawScore) :
         /\ byPlatform' = [byPlatform EXCEPT ![groupIdx].arr = sorted]
         /\ IF Len(sorted) = 1
            THEN /\ platformPercentile' = [platformPercentile EXCEPT ![sorted[1]] = One]
                 /\ spc' = AfterGroup(groupIdx)
                 /\ groupIdx' = IF groupIdx = Len(byPlatform) THEN groupIdx ELSE groupIdx + 1
                 /\ UNCHANGED loopI
            ELSE /\ loopI' = 0
                 /\ spc' = "blocks"
                 /\ UNCHANGED <<platformPercentile, groupIdx>>
    /\ UNCHANGED <<batch, rawScore, trendScore, topicVars, serviceVars>>

\* variant: every rank is its own block, ties are not detected
BlockEnd_NoTies(arr, j, sc, raw) == IF j < Len(arr) THEN j + 1 ELSE j

\* while (j < n && (arr[j]._rawScore ?? 0) === s) j++
RECURSIVE BlockEnd(_, _, _, _)
BlockEnd(arr, j, sc, raw) ==
    IF j < Len(arr) /\ NumEq(raw[arr[j + 1]], sc)
    THEN BlockEnd(arr, j + 1, sc, raw)
    ELSE j

\* variant: the mid-rank is divided by n instead of n - 1
BlockPercentile_DividedByN(lo, hi, n) ==
    NumSub(One, NumDivInt(Num(lo + (hi - 1), 2), n))

\* midRank = (i + (j - 1)) / 2;  pct = 1 - midRank / (n - 1)
BlockPercentile(lo, hi, n) ==
    NumSub(One, NumDivInt(Num(lo + (hi - 1), 2), n - 1))

\* BlockPercentile is a pure function: its values over the blocks of a batch
BlockPercentileOf ==
    Tabulated([blk \in {t \in (0..MaxScoreItems) \X (0..MaxScoreItems) \X (2..MaxScoreItems) :
                          t[1] < t[3] /\ t[1] <= t[2] /\ t[2] <= t[3]}
                  |-> BlockPercentile(blk[1], blk[2], blk[3])])

\* assignPercentilesDesc: one iteration of  while (i < n)
PercentileBlock ==
    /\ spc = "blocks"
    /\ LET arr == byPlatform[groupIdx].arr
           n == Len(arr)
       IN  /\ loopI < n
           /\ \E j \in {BlockEnd(arr, loopI, rawScore[arr[loopI + 1]], rawScore)} :
              \E pct \in {BlockPercentileOf[<<loopI, j, n>>]} :
                /\ platformPercentile' =
                       [k \in 1..Len(batch) |->
                           IF \E m \in (loopI + 1)..j : arr[m] = k
                           THEN pct ELSE platformPercentile[k]]
                /\ loopI' = j
                /\ IF j < n
                   THEN UNCHANGED <<spc, groupIdx>>
                   ELSE /\ spc' = AfterGroup(groupIdx)
                        /\ groupIdx' = IF groupIdx = Len(byPlatform) THEN groupIdx
                                       ELSE groupIdx + 1
    /\ UNCHANGED <<batch, rawScore, byPlatform, trendScore, topicVars, serviceVars>>

\* variant: the weighted sum is not clamped to [0, 1]
finalScore_Unclamped(item, percentile) ==
    LET f == freshness01(item.publishedAt, 24, 72)
        pct == ToNumber(NullishZero(percentile))
        gt == ToNumber(NullishZero(item.googleTrends))
        final01 == NumAdd(NumAdd(NumMul(Pct(60), pct), NumMul(Pct(25), f)),
                          NumMul(Pct(15), gt))
    IN  MathRound(NumMul(final01, Num(1000, 1)))

\* the body of the loop of step 4: the trendScore of one item
finalScore(item, percentile) ==
    LET f == freshness01(item.publishedAt, 24, 72)
        pct == ToNumber(NullishZero(percentile))
        gt01 == clamp01(ToNumber(NullishZero(item.googleTrends)))
        final01 == clamp01(NumAdd(NumAdd(NumMul(Pct(60), pct), NumMul(Pct(25), f)),
                                  NumMul(Pct(15), gt01)))
    IN  MathRound(NumMul(final01, Num(1000, 1)))

\* the values _platformPercentile can hold in a batch of the model
PercentileValues ==
    {JsUndefined, One} \cup
    {Num(a, 2 * (n - 1)) : a \in 0..(2 * MaxScoreItems), n \in 2..(MaxScoreItems + 1)}

\* finalScore is a pure function of the item and its percentile: its values
FinalScoreOf ==
    Tabulated([it \in ScoreItemPool, p \in PercentileValues |-> finalScore(it, p)])

\* 4) final comparable score, and the return
FinalScores ==
    /\ spc = "final"
    /\ trendScore' = [k \in 1..Len(batch) |-> FinalScoreOf[batch[k], platformPercentile[k]]]
    /\ spc' = "returned"
    /\ UNCHANGED <<batch, rawScore, platformPercentile, byPlatform, groupIdx, loopI, topicVars, serviceVars>>

InitScore ==
    /\ batch \in ScoreItemLists
    /\ spc = "start"
    /\ rawScore = [k \in 1..Len(batch) |-> JsUndefined]
    /\ platformPercentile = [k \in 1..Len(batch) |-> JsUndefined]
    /\ byPlatform = << >>
    /\ groupIdx = 0
    /\ loopI = 0
    /\ trendScore = << >>
    /\ TopicsIdle
    /\ ServiceIdle

NextScore == ScoreRaw \/ GroupByPlatform \/ SortGroup \/ PercentileBlock \/ FinalScores

SpecScore == InitScore /\ [][NextScore]_vars

\* the call runs on: a step that is possible is eventually taken
SpecScoreFair == SpecScore /\ WF_vars(NextScore)

(***************************************************************************)
(* The engine: a call of either function                                   *)
(***************************************************************************)
InitEngine == InitTopics \/ InitScore

NextEngine == NextTopics \/ NextScore

SpecEngine == InitEngine /\ [][NextEngine]_vars

(***************************************************************************)
(* server.js: dedupeByPlatformAndUrl.  A sourceUrl is modelled by the      *)
(* parts canonicalizeUrl works on: a value new URL() parses is             *)
(* [kind |-> "url"] with the text before the query, the query parameters   *)
(* in order and the fragment; any other value is [kind |-> "text"] with    *)
(* its characters, or [kind |-> "undefined"].                              *)
(***************************************************************************)
MaxDedupeItems == 3

Url(page, params, hash) == [kind |-> "url", text |-> page, params |-> params, hash |-> hash]

UrlText(str) == [kind |-> "text", text |-> str, params |-> << >>, hash |-> ""]

UrlUndefined == [kind |-> "undefined", text |-> "", params |-> << >>, hash |-> ""]

\* the drop Set of canonicalizeUrl
TrackingParams ==
    {"utm_source", "utm_medium", "utm_campaign", "utm_term", "utm_content", "utm_id",
     "utm_name", "utm_reader", "utm_referrer", "gclid", "fbclid", "mc_cid", "mc_eid",
     "ref", "ref_src", "igshid"}

\* the parameters left after  url.searchParams.delete(k)  for every key k
\* whose lower case is in the drop Set
RECURSIVE KeepParams(_)
KeepParams(params) ==
    IF params = << >> THEN << >>
    ELSE IF toLowerCase(Head(params).key) \in TrackingParams THEN KeepParams(Tail(params))
    ELSE <<Head(params)>> \o KeepParams(Tail(params))

\* canonicalizeUrl(String(it.sourceUrl || "").trim()): a URL without the
\* tracking parameters and the fragment; the trimmed text when new URL() throws
canonicalizeUrl(u) ==
    IF u.kind = "url" THEN [u EXCEPT !.params = KeepParams(u.params), !.hash = ""]
    ELSE UrlText(IF u.kind = "undefined" THEN "" ELSE Trim(u.text))

\* !u for the string canonicalizeUrl returns
IsEmptyUrl(u) == u.kind = "text" /\ u.text = ""

\* String(raw || "unknown").toLowerCase().trim()
safePlatform(raw) == platformKey(raw)

\* variant: the key is the URL alone
DedupeKey_UrlOnly(p, u) == <<"", u>>

\* `${p}::${u}`
DedupeKey(p, u) == <<p, u>>

DedupePlatforms == {"youtube", "news", " News"}

DedupeUrls ==
    {Url("https://a.example/watch", << >>, ""),
     Url("https://a.example/watch", <<[key |-> "UTM_Source", value |-> "feed"]>>, "t10"),
     Url("https://a.example/watch", <<[key |-> "v", value |-> "1"]>>, ""),
     UrlText("  "),
     UrlUndefined}

DedupeItemLists ==
    UNION {[1..n -> [platform : DedupePlatforms, sourceUrl : DedupeUrls]] :
              n \in 0..MaxDedupeItems}

\* one call of the callback of items.filter
FilterItem ==
    /\ dedupePos < Len(dedupeItems)
    /\ LET it == dedupeItems[dedupePos + 1]
           p == safePlatform(it.platform)
           u == canonicalizeUrl(it.sourceUrl)
           key == DedupeKey(p, u)
       IN  IF IsEmptyUrl(u) \/ key \in seen
           THEN UNCHANGED <<seen, kept>>
           ELSE /\ seen' = seen \cup {key}
                /\ kept' = Append(kept, [it EXCEPT !.sourceUrl = u])
    /\ dedupePos' = dedupePos + 1
    /\ UNCHANGED <<dedupeItems, notDedupe>>

InitDedupe ==
    /\ dedupeItems \in DedupeItemLists
    /\ dedupePos = 0
    /\ seen = {}
    /\ kept = << >>
    /\ TopicsIdle
    /\ ScoreIdle
    /\ PostIdle
    /\ ScanIdle
    /\ XIdle

NextDedupe == FilterItem

SpecDedupe == InitDedupe /\ [][NextDedupe]_vars

(***************************************************************************)
(* server.js: postToBase44WithBackoff.  What comes back for a request is   *)
(* an HTTP response with a status and a body, or nothing: fetch() or       *)
(* resp.text() rejects.  The waits between the attempts take time and      *)
(* change nothing else; time is not modelled.                              *)
(***************************************************************************)
MaxRetries == 3

DefaultRetries == 7

Response(status, text) == [kind |-> "response", status |-> status, text |-> text]

NetworkError == [kind |-> "rejected", status |-> 0, text |-> "fetch failed"]

Responses ==
    {Response(200, "{}"), Response(429, "Too Many Requests"),
     Response(500, "Internal Server Error"), Response(503, "Rate limit exceeded"),
     NetworkError}

\* text.includes(lit)
Includes(text, lit) == \E p \in 1..Len(text) : MatchAt(text, p, lit)

\* resp.ok
IsOk(r) == r.status >= 200 /\ r.status <= 299

\* resp.status === 429 || text.toLowerCase().includes("rate limit")
IsRateLimited(r) == r.status = 429 \/ Includes(toLowerCase(r.text), "rate limit")

\* the message of the Error thrown inside the try block
ErrorOf(r) ==
    IF r.kind = "rejected" THEN r.text
    ELSE "Base44 call failed " \o ToString(r.status) \o ": " \o r.text

\* one iteration of  for (let attempt = 0; attempt <= retries; attempt++)
Attempt ==
    /\ postOutcome = "running"
    /\ attempt <= postRetries
    /\ \E r \in Responses :
         /\ sent' = Append(sent, r)
         /\ IF r.kind = "response" /\ IsOk(r)
            THEN /\ postOutcome' = "returned"
                 /\ UNCHANGED <<attempt, lastErr>>
            ELSE IF r.kind = "response" /\ IsRateLimited(r) /\ attempt < postRetries
            THEN \* sleep, continue
                 /\ attempt' = attempt + 1
                 /\ UNCHANGED <<postOutcome, lastErr>>
            ELSE \* the Error thrown in the try block lands in catch (e)
                 /\ lastErr' = ErrorOf(r)
                 /\ IF attempt < postRetries
                    THEN /\ attempt' = attempt + 1
                         /\ UNCHANGED postOutcome
                    ELSE /\ postOutcome' = "threw"
                         /\ UNCHANGED attempt
    /\ UNCHANGED <<postRetries, notPost>>

InitPost ==
    /\ postRetries \in (0..MaxRetries) \cup {DefaultRetries}
    /\ attempt = 0
    /\ sent = << >>
    /\ lastErr = ""
    /\ postOutcome = "running"
    /\ TopicsIdle
    /\ ScoreIdle
    /\ DedupeIdle
    /\ ScanIdle
    /\ XIdle

NextPost == Attempt

SpecPost == InitPost /\ [][NextPost]_vars

(***************************************************************************)
(* server.js: POST /scan.  The steps are the stretches of the middleware   *)
(* and the handler between two awaits.  What the collectors and Base44 do  *)
(* is the environment: a step that calls them succeeds or throws.          *)
(***************************************************************************)
SERVICE_TOKEN == "trendforge_service_token"

AuthHeaders ==
    {Undefined, "Bearer " \o SERVICE_TOKEN, "bearer " \o SERVICE_TOKEN, SERVICE_TOKEN,
     "Bearer wrong", "Bearer "}

\* auth.startsWith("Bearer ") ? auth.slice(7) : ""  for  auth = header || ""
TokenOf(header) ==
    LET auth == IF header = Undefined THEN "" ELSE header
    IN  IF MatchAt(auth, 1, "Bearer ") THEN SubSeq(auth, 8, Len(auth)) ELSE ""

ScanInputs ==
    [authorization : AuthHeaders, trendRunId : IdValues, projectId : IdValues,
     errorUrlSet : BOOLEAN]

Outcomes == {"ok", "threw"}

\* res.status(code).send(...) or res.json(...)
Respond(code) == responses' = Append(responses, code)

requireAuth ==
    /\ scanPc = "auth"
    /\ IF TokenOf(scanInput.authorization) # SERVICE_TOKEN
       THEN Respond(401) /\ scanPc' = "done"
       ELSE UNCHANGED responses /\ scanPc' = "handler"
    /\ UNCHANGED <<scanInput, collected, posts, failure, notScan>>

\* the handler up to  res.json({ ok: true })
ScanValidate ==
    /\ scanPc = "handler"
    /\ IF Missing(scanInput.trendRunId) \/ Missing(scanInput.projectId)
       THEN Respond(400) /\ scanPc' = "done"
       ELSE Respond(200) /\ scanPc' = "collect"
    /\ UNCHANGED <<scanInput, collected, posts, failure, notScan>>

\* steps 1) to 7): collect, normalise, dedupe, score, select
ScanCollect ==
    /\ scanPc = "collect"
    /\ collected' = TRUE
    /\ \E outcome \in Outcomes :
         IF outcome = "ok"
         THEN scanPc' = "ingest" /\ UNCHANGED failure
         ELSE scanPc' = "failed" /\ failure' = "pipeline"
    /\ UNCHANGED <<scanInput, responses, posts, notScan>>

\* step 8): the ingest call; its Error is thrown on to the outer catch
ScanIngest ==
    /\ scanPc = "ingest"
    /\ posts' = Append(posts, "ingest")
    /\ \E outcome \in Outcomes :
         IF outcome = "ok"
         THEN scanPc' = "topics" /\ UNCHANGED failure
         ELSE scanPc' = "failed" /\ failure' = "ingest"
    /\ UNCHANGED <<scanInput, responses, collected, notScan>>

\* variant: the Error of the topic-build call is thrown on to the outer catch
ScanBuildTopics_Rethrows ==
    /\ scanPc = "topics"
    /\ posts' = Append(posts, "topics")
    /\ \E outcome \in Outcomes :
         IF outcome = "ok"
         THEN scanPc' = "done" /\ UNCHANGED failure
         ELSE scanPc' = "failed" /\ failure' = "topics"
    /\ UNCHANGED <<scanInput, responses, collected, notScan>>

\* step 9): the topic-build call; its Error is logged and dropped
ScanBuildTopics ==
    /\ scanPc = "topics"
    /\ posts' = Append(posts, "topics")
    /\ \E outcome \in Outcomes :
         /\ scanPc' = "done"
         /\ failure' = IF outcome = "ok" THEN failure ELSE "topics"
    /\ UNCHANGED <<scanInput, responses, collected, notScan>>

\* the outer catch: the error callback, whose own Error is logged and dropped
ScanErrorCallback ==
    /\ scanPc = "failed"
    /\ posts' = IF scanInput.errorUrlSet THEN Append(posts, "error") ELSE posts
    /\ scanPc' = "done"
    /\ UNCHANGED <<scanInput, responses, collected, failure, notScan>>

InitScan ==
    /\ scanInput \in ScanInputs
    /\ scanPc = "auth"
    /\ responses = << >>
    /\ collected = FALSE
    /\ posts = << >>
    /\ failure = "none"
    /\ TopicsIdle
    /\ ScoreIdle
    /\ DedupeIdle
    /\ PostIdle
    /\ XIdle

NextScan ==
    requireAuth \/ ScanValidate \/ ScanCollect \/ ScanIngest \/ ScanBuildTopics
        \/ ScanErrorCallback

SpecScan == InitScan /\ [][NextScan]_vars

(***************************************************************************)
(* collectors/xTrends.js: fetchXTrends.  JavaScript runs a worker from one *)
(* await to the next without interruption: `running` is the worker that    *)
(* executes, and a fetch settles only when no worker executes.  What the   *)
(* network answers and how old a cache entry is are the environment.       *)
(***************************************************************************)
MaxRegions == 3

MinWorkers == 1

MaxWorkers == 4

LowerToUpper ==
    Tabulated([c \in LowerAlpha |-> CHOOSE u \in DOMAIN UpperToLower : UpperToLower[u] = c])

\* String.prototype.toUpperCase on ASCII text
RECURSIVE toUpperCase(_)
toUpperCase(s) ==
    IF Len(s) = 0 THEN ""
    ELSE LET c == CharAt(s, 1)
         IN  (IF c \in LowerAlpha THEN LowerToUpper[c] ELSE c) \o toUpperCase(Tail(s))

\* /^[A-Z]{2}$/.test(r)
IsIso2(r) == Len(r) = 2 /\ \A p \in 1..2 : CharAt(r, p) \in DOMAIN UpperToLower

\* String(r || "").trim().toUpperCase()
RegionCode(r) == toUpperCase(Trim(IF r = Undefined THEN "" ELSE r))

\* (regions || []).map(...).filter(...)
Iso2sOf(regions) ==
    SelectSeq([k \in 1..Len(regions) |-> RegionCode(regions[k])], IsIso2)

\* Math.max(a, Math.min(b, n))
clamp(n, a, b) == IF Min(b, n) >= a THEN Min(b, n) ELSE a

RegionPool == {"US", " us", "GB", "Global", Undefined}

RegionLists == UNION {[1..n -> RegionPool] : n \in 0..MaxRegions}

Concurrencies == (MinWorkers - 1)..(MaxWorkers + 1)

\* the rows parsed from the page of one region
RowsOf(geo) == <<[region |-> geo, source |-> "trends24"]>>

WorkerCount == clamp(concurrency, MinWorkers, MaxWorkers)

\* the worker reaches an await or its end: the next worker not yet started
\* runs, and after the last one the event loop takes over
Yield ==
    /\ running' = IF started < WorkerCount THEN started + 1 ELSE 0
    /\ started' = IF started < WorkerCount THEN started + 1 ELSE started

\* the function up to the creation of the workers
XStart ==
    /\ xpc = "call"
    /\ iso2s' = Iso2sOf(xRegions)
    /\ IF Len(iso2s') = 0
       THEN /\ xpc' = "returned"
            /\ UNCHANGED <<workers, running, started>>
       ELSE /\ xpc' = "workers"
            /\ workers' = [w \in 1..WorkerCount |-> [pc |-> "top", geo |-> ""]]
            /\ running' = 1
            /\ started' = 1
    /\ UNCHANGED <<xRegions, concurrency, nextIdx, out, memCache, claims, fetched, notX>>

\* one pass of the loop body, from  const idx = i++  to the await or the break
XClaim(w) ==
    /\ xpc = "workers"
    /\ running = w
    /\ workers[w].pc = "top"
    /\ nextIdx' = nextIdx + 1
    /\ IF nextIdx > Len(iso2s)
       THEN /\ workers' = [workers EXCEPT ![w].pc = "done"]
            /\ Yield
            /\ UNCHANGED <<out, claims, fetched>>
       ELSE LET geo == iso2s[nextIdx]
            IN  /\ claims' = Append(claims, <<nextIdx, w>>)
                /\ \E fresh \in (IF geo \in memCache THEN BOOLEAN ELSE {FALSE}) :
                     IF fresh
                     THEN /\ out' = out \o RowsOf(geo)
                          /\ UNCHANGED <<workers, running, started, fetched>>
                     ELSE /\ workers' = [workers EXCEPT ![w] = [pc |-> "fetching", geo |-> geo]]
                          /\ fetched' = Append(fetched, geo)
                          /\ Yield
                          /\ UNCHANGED out
    /\ UNCHANGED <<xRegions, concurrency, iso2s, memCache, xpc, notX>>

\* the awaited fetchUrlText settles: the try block goes on, or the catch logs
XSettle(w) ==
    /\ xpc = "workers"
    /\ running = 0
    /\ workers[w].pc = "fetching"
    /\ \E outcome \in Outcomes :
         IF outcome = "ok"
         THEN /\ memCache' = memCache \cup {workers[w].geo}
              /\ out' = out \o RowsOf(workers[w].geo)
         ELSE UNCHANGED <<memCache, out>>
    /\ workers' = [workers EXCEPT ![w].pc = "top"]
    /\ running' = w
    /\ UNCHANGED <<xRegions, concurrency, iso2s, nextIdx, started, claims, fetched, xpc, notX>>

\* await Promise.all(workers); return out
XReturn ==
    /\ xpc = "workers"
    /\ running = 0
    /\ \A w \in 1..Len(workers) : workers[w].pc = "done"
    /\ xpc' = "returned"
    /\ UNCHANGED <<xRegions, concurrency, iso2s, nextIdx, out, memCache, workers, running, started,
                   claims, fetched, notX>>

InitX ==
    /\ xRegions \in RegionLists
    /\ concurrency \in Concurrencies
    /\ memCache \in SUBSET {"US"}
    /\ iso2s = << >>
    /\ nextIdx = 1
    /\ out = << >>
    /\ workers = << >>
    /\ running = 0
    /\ started = 0
    /\ claims = << >>
    /\ fetched = << >>
    /\ xpc = "call"
    /\ TopicsIdle
    /\ ScoreIdle
    /\ DedupeIdle
    /\ PostIdle
    /\ ScanIdle

NextX ==
    \/ XStart
    \/ \E w \in 1..Len(workers) : XClaim(w)
    \/ \E w \in 1..Len(workers) : XSettle(w)
    \/ XReturn

SpecXTrends == InitX /\ [][NextX]_vars

\* every started step finishes: a worker that can run does, a fetch settles
SpecXTrendsFair == SpecXTrends /\ WF_vars(NextX)

(***************************************************************************)
(* Properties of the clustering loop                                       *)
(***************************************************************************)
ScenarioA1 == CHOOSE it \in ItemPool : it.topicTitle = "Central Bank Raises Interest Rates"

ScenarioA2 == CHOOSE it \in ItemPool : it.topicTitle = "Central bank hikes interest rate again,"

\* the places <<cluster, position>> at which item k is a member
PlacesOf(k) ==
    {p \in UNION {{<<c, j>> : j \in 1..Len(clusters[c].items)} : c \in 1..Len(clusters)} :
        clusters[p[1]].items[p[2]] = k}

RECURSIVE SumSizes(_)
SumSizes(cs) == IF cs = << >> THEN 0 ELSE Len(Head(cs).items) + SumSizes(Tail(cs))

\* C1: when the clustering loop has ended, every input item is a member of
\* exactly one cluster, exactly once, and the cluster sizes sum to the
\* number of input items.
C1_EveryItemInExactlyOneCluster ==
    pc = "clustered" =>
        /\ \A k \in 1..Len(items) : Cardinality(PlacesOf(k)) = 1
        /\ \A c \in 1..Len(clusters) : Range(clusters[c].items) \subseteq 1..Len(items)
        /\ SumSizes(clusters) = Len(items)

C1_Witness ==
    /\ pc = "clustered"
    /\ Len(items) >= 3
    /\ Len(clusters) >= 2
    /\ \E c \in 1..Len(clusters) : Len(clusters[c].items) >= 2

\* C2 (as claimed): the two Scenario A items, clustered with threshold 0.55,
\* end in one cluster of size 2.
C2_ScenarioA_OneCluster ==
    (/\ pc = "clustered"
     /\ items = WithUrls(<<ScenarioA1, ScenarioA2>>)
     /\ similarityThreshold = DefaultSimilarityThreshold)
        => (Len(clusters) = 1 /\ Len(clusters[1].items) = 2)

\* C2 (amended): the two Scenario A items share 3 of 8 distinct tokens, so
\* their similarity 3/8 is below 0.55 and they end in two singleton clusters.
C2_ScenarioA_TwoClusters ==
    (/\ pc = "clustered"
     /\ items = WithUrls(<<ScenarioA1, ScenarioA2>>)
     /\ similarityThreshold = DefaultSimilarityThreshold)
        => /\ FracEq(jaccard(prepared[1]._tokens, prepared[2]._tokens), <<3, 8>>)
           /\ Len(clusters) = 2
           /\ clusters[1].items = <<1>>
           /\ clusters[2].items = <<2>>

C2_Witness ==
    /\ pc = "clustered"
    /\ items = WithUrls(<<ScenarioA1, ScenarioA2>>)
    /\ similarityThreshold = DefaultSimilarityThreshold

\* similarity of a signature to the c-th cluster
SimTo(tokens, c) == jaccard(tokens, clusters[c].signature)

\* cluster c attains the maximum similarity over the existing clusters
AttainsMax(tokens, c) ==
    \A d \in 1..Len(clusters) : FracGe(SimTo(tokens, c), SimTo(tokens, d))

\* the maximum similarity over the existing clusters, 0 when there is none
MaxSim(tokens) ==
    IF clusters = << >> THEN Zero
    ELSE SimTo(tokens, CHOOSE c \in 1..Len(clusters) : AttainsMax(tokens, c))

\* this step appends item k to cluster c and creates no cluster
JoinsCluster(k, c) ==
    /\ Len(clusters') = Len(clusters)
    /\ clusters'[c].items = Append(clusters[c].items, k)
    /\ \A d \in 1..Len(clusters) : d # c => clusters'[d].items = clusters[d].items

\* this step creates a new last cluster holding only item k
StartsSingleton(k, tokens) ==
    /\ Len(clusters') = Len(clusters) + 1
    /\ clusters'[Len(clusters) + 1].items = <<k>>
    /\ Range(clusters'[Len(clusters) + 1].signature) = Range(tokens)
    /\ \A d \in 1..Len(clusters) : clusters'[d] = clusters[d]

\* C3 (as claimed): an item joins a cluster of maximal similarity s when
\* s >= similarityThreshold and starts a new singleton cluster otherwise,
\* for every threshold including 0.
C3_JoinIffThresholdMet ==
    [][pc = "cluster" =>
        LET k == pos + 1
            tokens == prepared[k]._tokens
        IN  IF clusters # << >> /\ FracGe(MaxSim(tokens), similarityThreshold)
            THEN \E c \in 1..Len(clusters) : AttainsMax(tokens, c) /\ JoinsCluster(k, c)
            ELSE StartsSingleton(k, tokens)]_vars

\* C3 (amended): an item joins a cluster of maximal similarity s when
\* s >= similarityThreshold and s > 0, and starts a new singleton cluster
\* otherwise.
C3_JoinIffThresholdMetAndPositive ==
    [][pc = "cluster" =>
        LET k == pos + 1
            tokens == prepared[k]._tokens
        IN  IF /\ clusters # << >>
               /\ FracGe(MaxSim(tokens), similarityThreshold)
               /\ FracGt(MaxSim(tokens), Zero)
            THEN \E c \in 1..Len(clusters) : AttainsMax(tokens, c) /\ JoinsCluster(k, c)
            ELSE StartsSingleton(k, tokens)]_vars

\* a join happened and, with threshold 0, an item of similarity 0 to the
\* existing cluster started its own cluster
C3_Witness ==
    /\ similarityThreshold = Zero
    /\ pos >= 3
    /\ Len(clusters) >= 2
    /\ \E c \in 1..Len(clusters) : Len(clusters[c].items) >= 2
    /\ \E c \in 2..Len(clusters) :
           Range(clusters[c].signature) # {}
           /\ Range(clusters[c].signature) \cap Range(clusters[1].signature) = {}

\* clusters tied at the maximal similarity
TiedAtMax(tokens) == {c \in 1..Len(clusters) : AttainsMax(tokens, c)}

Earliest(cset) == CHOOSE c \in cset : \A d \in cset : c <= d

\* C4 (as claimed): when two or more clusters tie at the maximal similarity
\* and it meets the threshold, the item joins the earliest of them.
C4_TieGoesToEarliest ==
    [][pc = "cluster" =>
        LET k == pos + 1
            tokens == prepared[k]._tokens
        IN  (/\ Cardinality(TiedAtMax(tokens)) >= 2
             /\ FracGe(MaxSim(tokens), similarityThreshold))
                => JoinsCluster(k, Earliest(TiedAtMax(tokens)))]_vars

\* C4 (amended): when two or more clusters tie at the maximal similarity,
\* it meets the threshold and it is greater than 0, the item joins the
\* earliest of them.
C4_PositiveTieGoesToEarliest ==
    [][pc = "cluster" =>
        LET k == pos + 1
            tokens == prepared[k]._tokens
        IN  (/\ Cardinality(TiedAtMax(tokens)) >= 2
             /\ FracGe(MaxSim(tokens), similarityThreshold)
             /\ FracGt(MaxSim(tokens), Zero))
                => JoinsCluster(k, Earliest(TiedAtMax(tokens)))]_vars

\* "The storm" is at similarity 1/2 to both {storm, coast} and {storm, city}
C4_Witness ==
    /\ similarityThreshold = <<1, 2>>
    /\ pos = 3
    /\ Len(items) >= 3
    /\ items[1].topicTitle = "Storm: coast"
    /\ items[2].topicTitle = "Storm - city"
    /\ items[3].topicTitle = "The storm"
    /\ Len(clusters) = 2
    /\ clusters[1].items = <<1, 3>>
    /\ clusters[2].items = <<2>>

\* C5: during the clustering loop no signature shrinks; the signature of
\* the cluster an item joins becomes the old signature united with the
\* item's signature, and every other signature is unchanged.
C5_SignaturesOnlyGrow ==
    [][pc = "cluster" =>
        LET k == pos + 1
            tokens == prepared[k]._tokens
        IN  /\ Len(clusters') >= Len(clusters)
            /\ \A c \in 1..Len(clusters) :
                 /\ Range(clusters[c].signature) \subseteq Range(clusters'[c].signature)
                 /\ IF clusters'[c].items # clusters[c].items
                    THEN Range(clusters'[c].signature) =
                             Range(clusters[c].signature) \cup Range(tokens)
                    ELSE clusters'[c].signature = clusters[c].signature]_vars

\* a cluster whose signature has grown beyond that of its first member
C5_Witness ==
    \E c \in 1..Len(clusters) :
        /\ Len(clusters[c].items) >= 2
        /\ Len(clusters[c].signature) > Len(prepared[clusters[c].items[1]]._tokens)

\* C6 (as claimed): a cluster signature holds at most 12 tokens at every
\* point of a run.
C6_SignatureAtMost12 ==
    \A c \in 1..Len(clusters) : Len(clusters[c].signature) <= SignatureSize

\* C6 (amended): an item signature holds at most 12 tokens and a cluster
\* signature at most 12 tokens per member; the union is not capped, so it
\* can exceed 12 once a second member has joined.
C6_SignatureAtMost12PerMember ==
    /\ \A k \in 1..Len(prepared) : Len(prepared[k]._tokens) <= SignatureSize
    /\ \A c \in 1..Len(clusters) :
           Len(clusters[c].signature) <= SignatureSize * Len(clusters[c].items)

C6_Witness ==
    \E c \in 1..Len(clusters) :
        /\ Len(clusters[c].items) >= 2
        /\ Len(clusters[c].signature) > SignatureSize

\* C7: a second run over the same items in the same order with the same
\* threshold ends with the same clusters: same creation order, same members
\* in the same order, same signatures.
C7_RerunGivesSameClusters ==
    (pc = "clustered" /\ run >= 2) => clusters = firstClusters

C7_Witness ==
    /\ pc = "clustered"
    /\ run >= 2
    /\ Len(clusters) >= 2
    /\ \E c \in 1..Len(clusters) : Len(clusters[c].items) >= 2

(***************************************************************************)
(* Properties of the platform percentiles                                  *)
(***************************************************************************)
\* step 3 of scoreItemsComparable has completed for every group
PercentilesAssigned == spc \in {"final", "returned"}

\* the items of the batch that share item k's normalised platform
PartitionOf(k) ==
    {o \in 1..Len(batch) : platformKey(batch[o].platform) = platformKey(batch[k].platform)}

\* the items of k's partition whose raw score is identical to k's
TiedWith(k) == {o \in PartitionOf(k) : NumEq(rawScore[o], rawScore[k])}

\* no other item of k's partition has a higher raw score
HoldsHighest(k) == \A o \in PartitionOf(k) \ {k} : NumLe(rawScore[o], rawScore[k])

\* every other item of k's partition has a strictly higher raw score
AloneLowest(k) == \A o \in PartitionOf(k) \ {k} : NumLt(rawScore[k], rawScore[o])

\* C8: after the percentiles are assigned, two items with the same
\* normalised platform and an identical raw score have the same percentile.
C8_TiedItemsShareAPercentile ==
    PercentilesAssigned =>
        \A a, b \in 1..Len(batch) :
            (b \in PartitionOf(a) /\ NumEq(rawScore[a], rawScore[b]))
                => platformPercentile[a] = platformPercentile[b]

\* two items tied under differently written platforms, and a third item of
\* the partition with another raw score
C8_Witness ==
    /\ spc = "final"
    /\ \E a, b, c \in 1..Len(batch) :
         /\ batch[a].platform # batch[b].platform
         /\ b \in PartitionOf(a)
         /\ c \in PartitionOf(a)
         /\ NumEq(rawScore[a], rawScore[b])
         /\ NumLt(rawScore[c], rawScore[a])
         /\ platformPercentile[a] = platformPercentile[b]
         /\ platformPercentile[c] # platformPercentile[a]

\* C9 (as claimed): every assigned percentile is greater than 0 and at
\* most 1.
C9_PercentileInHalfOpenInterval ==
    PercentilesAssigned =>
        \A k \in 1..Len(batch) :
            NumLt(Zero, platformPercentile[k]) /\ NumLe(platformPercentile[k], One)

\* C9 (amended): every assigned percentile lies in [0,1], and it is 0
\* exactly for an item that alone holds the lowest raw score of a partition
\* of two or more items.
C9_PercentileInClosedInterval ==
    PercentilesAssigned =>
        \A k \in 1..Len(batch) :
            /\ NumLe(Zero, platformPercentile[k])
            /\ NumLe(platformPercentile[k], One)
            /\ platformPercentile[k] = Zero
                   <=> (Cardinality(PartitionOf(k)) >= 2 /\ AloneLowest(k))

C9_Witness ==
    /\ spc = "final"
    /\ \E k, m \in 1..Len(batch) :
         /\ m \in PartitionOf(k)
         /\ platformPercentile[k] = Zero
         /\ NumLt(Zero, platformPercentile[m])
         /\ NumLt(platformPercentile[m], One)

\* C10 (as claimed): an item holding the highest raw score of its
\* partition has percentile exactly 1, ties for the highest included.
C10_HighestGetsOne ==
    PercentilesAssigned =>
        \A k \in 1..Len(batch) : HoldsHighest(k) => platformPercentile[k] = One

\* C10 (amended): an item holding the highest raw score of its partition
\* of n items has percentile 1 when n = 1 or when no other item has that
\* raw score; when t >= 2 items tie for the highest raw score each of them
\* has percentile 1 - (t - 1) / (2 (n - 1)), which is below 1.
C10_HighestGetsOneUnlessTied ==
    PercentilesAssigned =>
        \A k \in 1..Len(batch) :
            HoldsHighest(k) =>
                LET n == Cardinality(PartitionOf(k))
                    t == Cardinality(TiedWith(k))
                IN  /\ platformPercentile[k] =
                           IF n = 1 THEN One
                           ELSE NumSub(One, Num(t - 1, 2 * (n - 1)))
                    /\ platformPercentile[k] = One <=> (n = 1 \/ t = 1)

C10_Witness ==
    /\ spc = "final"
    /\ \E k \in 1..Len(batch) :
         /\ HoldsHighest(k)
         /\ Cardinality(PartitionOf(k)) >= 3
         /\ Cardinality(TiedWith(k)) = 2
         /\ NumLt(platformPercentile[k], One)

\* a metric or signal that is absent or a number
WellFormedValue(v) == Len(v) = 0 \/ (Len(v) = 2 /\ ~IsNaN(v))

\* an item whose metrics and Google Trends signal are absent or numbers
ValidScoreItem(it) ==
    /\ \A f \in DOMAIN it.metrics : WellFormedValue(it.metrics[f])
    /\ WellFormedValue(it.googleTrends)

IsIntegerIn(v, lo, hi) == Len(v) = 2 /\ v[2] = 1 /\ lo <= v[1] /\ v[1] <= hi

\* C11: when scoreItemsComparable has returned on a non-empty batch of valid
\* items, the trendScore of every item is an integer between 0 and 1000.
C11_TrendScoreIntegerInRange ==
    (spc = "returned" /\ Len(batch) > 0 /\ \A k \in 1..Len(batch) : ValidScoreItem(batch[k]))
        => \A k \in 1..Len(batch) : IsIntegerIn(trendScore[k], 0, 1000)

\* a returned batch of valid items holding both ends of the range, one of
\* them an item whose Google Trends signal is above 1
C11_Witness ==
    /\ spc = "returned"
    /\ \A k \in 1..Len(batch) : ValidScoreItem(batch[k])
    /\ \E k \in 1..Len(batch) : trendScore[k] = Num(1000, 1)
    /\ \E k \in 1..Len(batch) : trendScore[k] = Zero
    /\ \E k \in 1..Len(batch) :
         Len(batch[k].googleTrends) = 2 /\ NumLt(One, batch[k].googleTrends)

(***************************************************************************)
(* Properties of the topic records                                         *)
(***************************************************************************)
\* the members of cluster c, as items
MembersOf(c) == [j \in 1..Len(clusters[c].items) |-> items[clusters[c].items[j]]]

\* step 3 has just run: topicRecords[c] is the record made from clusters[c]
RecordsAligned == pc = "aggregated"

\* every returned record is one of the records step 3 made
ResultFromRecords ==
    pc = "returned" =>
        \A r \in 1..Len(result) : \E c \in 1..Len(topicRecords) : result[r] = topicRecords[c]

\* C13: topSourceUrls of every record has at most 8 entries and each entry is
\* the sourceUrl of a member of the cluster the record was made from; every
\* returned record is one of these records.
C13_TopSourceUrlsFromOwnCluster ==
    /\ RecordsAligned =>
          \A c \in 1..Len(topicRecords) :
              /\ Len(topicRecords[c].topSourceUrls) <= 8
              /\ \A u \in Range(topicRecords[c].topSourceUrls) :
                     \E m \in Range(MembersOf(c)) : m.sourceUrl = u
    /\ ResultFromRecords

\* a cluster of more than 8 members whose record lists 8 URLs, next to none
C13_Witness ==
    /\ RecordsAligned
    /\ \E c \in 1..Len(topicRecords) :
          /\ Len(clusters[c].items) > 8
          /\ Len(topicRecords[c].topSourceUrls) = 8

ScoreOf(it) == NullishZero(it.trendScore)

\* sel lists positions of members: distinct, and the members at them are in
\* non-increasing order of score
IsSelection(sel, members) ==
    /\ \A a \in 1..Len(sel) : sel[a] \in 1..Len(members)
    /\ \A a, b \in 1..Len(sel) : a < b => sel[a] # sel[b]
    /\ \A a, b \in 1..Len(sel) : a < b => NumLe(ScoreOf(members[sel[b]]), ScoreOf(members[sel[a]]))

\* the members of cluster c that are listed, in the order of the list
SelectionOf(c) ==
    [a \in 1..Len(topicRecords[c].topSourceUrls) |->
        CHOOSE j \in 1..Len(clusters[c].items) :
            MembersOf(c)[j].sourceUrl = topicRecords[c].topSourceUrls[a]]

\* C14: the entries of topSourceUrls are the URLs of min(8, size) members in
\* non-increasing order of trendScore (missing read as 0), and no member
\* left out has a strictly higher score than a listed member.
C14_TopSourceUrlsAreTheHighest ==
    RecordsAligned =>
        \A c \in 1..Len(topicRecords) :
            LET members == MembersOf(c)
                sel == SelectionOf(c)
            IN  /\ Len(sel) = Min(8, Len(members))
                /\ IsSelection(sel, members)
                /\ \A j \in 1..Len(members) : \A a \in 1..Len(sel) :
                       j \notin Range(sel) =>
                           ~NumLt(ScoreOf(members[sel[a]]), ScoreOf(members[j]))

\* a cluster of more than 8 members of different scores, the last of them
\* with the highest score, listed first
C14_Witness ==
    /\ RecordsAligned
    /\ \E c \in 1..Len(topicRecords) :
          LET members == MembersOf(c)
              n == Len(members)
          IN  /\ n > 8
              /\ NumLt(ScoreOf(members[1]), ScoreOf(members[n]))
              /\ topicRecords[c].topSourceUrls[1] = members[n].sourceUrl

\* the arguments of the call fail one of the three checks
InvalidArguments == Missing(trendRunId) \/ Missing(projectId) \/ itemsKind # "array"

NothingProduced ==
    prepared = << >> /\ clusters = << >> /\ topicRecords = << >> /\ result = << >>

\* C18: a call whose trendRunId or projectId is missing or whose items are
\* not a list fails with an error at the checks and never tokenises,
\* clusters or produces a record; a call that fails is such a call.
C18_InvalidArgumentsThrowFirst ==
    /\ InvalidArguments => (pc \in {"start", "threw"} /\ NothingProduced)
    /\ pc = "threw" => (InvalidArguments /\ error # "" /\ NothingProduced)

\* the call has thrown at the third check, both ids being present
C18_Witness ==
    /\ pc = "threw"
    /\ error = "buildTrendTopics: items must be an array"
    /\ ~Missing(trendRunId)
    /\ ~Missing(projectId)

\* C17: buildTrendTopics with valid ids and an empty items list returns an
\* empty list and does not throw; scoreItemsComparable on an empty list
\* returns without having set anything.
C17_EmptyInputsAreHandled ==
    /\ (pc # "idle" /\ ~InvalidArguments /\ items = << >>) =>
          /\ pc # "threw"
          /\ error = ""
          /\ topicRecords = << >> /\ result = << >>
          \* clusters is a local of the call, created after the checks
          /\ pc \notin {"start", "prepare"} => clusters = << >>
    /\ (spc # "idle" /\ batch = << >>) =>
          /\ spc \in {"start", "returned"}
          /\ rawScore = << >> /\ platformPercentile = << >> /\ trendScore = << >>
          /\ byPlatform = << >>

\* buildTrendTopics has returned from a call with valid ids and no items
C17_Witness ==
    /\ pc = "returned"
    /\ ~InvalidArguments
    /\ items = << >>
    /\ result = << >>

\* seq with the elements at positions a and b exchanged
Swap(seq, a, b) ==
    [p \in 1..Len(seq) |-> IF p = a THEN seq[b] ELSE IF p = b THEN seq[a] ELSE seq[p]]

Reverse(seq) == [p \in 1..Len(seq) |-> seq[Len(seq) + 1 - p]]

\* rearrangements of a keyword list: every exchange of two neighbours (they
\* generate all arrangements), the reversal, and every arrangement of a list
\* of at most 3 keywords
Rearrangements(seq) ==
    {Swap(seq, a, a + 1) : a \in 1..(Len(seq) - 1)} \cup {Reverse(seq)}
        \cup (IF Len(seq) <= 3 THEN Orderings(seq) ELSE {})

\* C15: the topicId of a record is that of every rearrangement of its
\* keywords, and a further run on the same input gives every cluster the
\* topicId of the keywords the first run gave it.
C15_TopicIdIgnoresKeywordOrder ==
    RecordsAligned =>
        /\ run = 1 =>
               \A c \in 1..Len(topicRecords) :
                   \A kw \in Rearrangements(topicRecords[c].keywords) :
                       hashTopicId(kw) = topicRecords[c].topicId
        /\ run >= 2 =>
               /\ Len(topicRecords) = Len(firstClusters)
               /\ \A c \in 1..Len(topicRecords) :
                      topicRecords[c].topicId
                          = hashTopicId(topKeywords(firstClusters[c].signature, SignatureSize))

\* a further run has made a record whose keywords are not in sorted order
C15_Witness ==
    /\ RecordsAligned
    /\ run >= 2
    /\ \E c \in 1..Len(topicRecords) :
          /\ Len(topicRecords[c].keywords) >= 3
          /\ topicRecords[c].keywords # SortStrings(topicRecords[c].keywords)

\* the recognised platform categories
PlatformCategories == {"youtube", "news"}

\* the categories the members of cluster c cover
CategoriesOf(c) ==
    {platformKey(MembersOf(c)[j].platform) : j \in 1..Len(MembersOf(c))} \cap PlatformCategories

\* C19: the confirmationScore of a record is 0, 1/2 or 1 as the members of
\* its cluster cover no, exactly one, or two of the platform categories
\* youtube and news; other platforms are no category.
C19_ConfirmationByCategories ==
    RecordsAligned =>
        \A c \in 1..Len(topicRecords) :
            topicRecords[c].confirmationScore =
                CASE Cardinality(CategoriesOf(c)) = 0 -> Zero
                  [] Cardinality(CategoriesOf(c)) = 1 -> Num(1, 2)
                  [] Cardinality(CategoriesOf(c)) >= 2 -> One

\* two records: a cluster of a reddit member only and a cluster of both
\* categories
C19_Witness ==
    /\ RecordsAligned
    /\ \E c \in 1..Len(topicRecords) :
          /\ topicRecords[c].confirmationScore = Zero
          /\ "reddit" \in DOMAIN topicRecords[c].platformCounts
    /\ \E c \in 1..Len(topicRecords) :
          /\ topicRecords[c].confirmationScore = One
          /\ Len(clusters[c].items) >= 2

\* C12 (as claimed): every returned record has a topicScore that is an
\* integer between 0 and 1000, whatever batch the call was given.
C12_TopicScoreIntegerInRange ==
    pc = "returned" => \A r \in 1..Len(result) : IsIntegerIn(result[r].topicScore, 0, 1000)

\* a member's metrics of cluster c are absent or numbers
WellFormedCluster(c) ==
    \A j \in 1..Len(MembersOf(c)) :
        \A f \in DOMAIN MembersOf(c)[j].metrics : WellFormedValue(MembersOf(c)[j].metrics[f])

\* the returned list is in non-increasing order of topicScore
SortedByTopicScore ==
    \A a, b \in 1..Len(result) : a < b => NumLe(result[b].topicScore, result[a].topicScore)

\* no record left out of the returned list outscores one in it
NoneLeftOutIsHigher ==
    \A c \in (Len(result) + 1)..Len(topicRecords) : \A r \in 1..Len(result) :
        ~NumLt(result[r].topicScore, topicRecords[c].topicScore)

\* C16 (as claimed): the returned list is sorted by topicScore in
\* non-increasing order, has at most maxTopics entries, and no record left
\* out by the truncation has a strictly higher topicScore than a returned one.
C16_SortedAndTruncated ==
    pc = "returned" =>
        /\ SortedByTopicScore
        /\ Len(result) <= maxTopics
        /\ result = SubSeq(topicRecords, 1, Len(result))
        /\ NoneLeftOutIsHigher

\* cluster c is made of copies of one item
CopiesOfOne(c) ==
    \A j \in 1..Len(MembersOf(c)) :
        [MembersOf(c)[j] EXCEPT !.sourceUrl = ""] = [MembersOf(c)[1] EXCEPT !.sourceUrl = ""]

\* the record of the cluster that holds the first member of c alone
SingleMemberRecord(c) ==
    TopicRecord([items |-> <<clusters[c].items[1]>>, signature |-> clusters[c].signature],
                items, trendRunId, projectId)

\* C20 (as claimed): the saturationPenalty is 0 for a cluster of 1 member,
\* does not decrease as the size grows, is between 0.8 and 1 for a cluster
\* of 25 members, and a cluster of 25 copies of an item has a topicScore
\* lower than or equal to that of the cluster of the item alone.
C20_ScenarioC ==
    RecordsAligned =>
        \A c \in 1..Len(topicRecords) :
            LET size == Len(clusters[c].items)
                penalty == topicRecords[c].saturationPenalty
            IN  /\ penalty = saturationPenaltyOf(size)
                /\ size = 1 => penalty = Zero
                /\ size > 1 => NumLe(saturationPenaltyOf(size - 1), penalty)
                /\ size = 25 => (NumLe(Num(4, 5), penalty) /\ NumLe(penalty, One))
                /\ (size = 25 /\ CopiesOfOne(c)) =>
                       NumLe(topicRecords[c].topicScore, SingleMemberRecord(c).topicScore)

(***************************************************************************)
(* Properties of the freshness function                                    *)
(***************************************************************************)
\* the ages, in hours, of the usable dates among some items
AgesOf(its) ==
    {its[j].publishedAt.hoursAgo : j \in {m \in 1..Len(its) : its[m].publishedAt.kind = "date"}}

Youngest(ages) == CHOOSE a \in ages : \A b \in ages : a <= b

\* f is the freshness the claim gives to the youngest of these ages
FreshnessAsStated(f, ages, maxHours) ==
    /\ Len(f) = 2
    /\ ~IsNaN(f)
    /\ NumLe(Zero, f) /\ NumLe(f, One)
    /\ ages = {} => f = Zero
    /\ (ages # {} /\ Youngest(ages) <= 0) => f = One
    /\ (ages # {} /\ Youngest(ages) >= maxHours) => f = Zero

\* the raw score of item k of the batch is its freshness alone (any platform
\* but youtube and news, 24h/72h) or three quarters of it (a news item
\* without sourceRank and relevance, 36h/96h)
FreshnessOnly(k) ==
    \/ platformKey(batch[k].platform) \notin {"youtube", "news"}
    \/ platformKey(batch[k].platform) = "news" /\ batch[k].metrics = NoMetrics

FreshnessInRaw(k) ==
    IF platformKey(batch[k].platform) = "news"
    THEN NumMul(rawScore[k], Num(4, 3)) ELSE rawScore[k]

CutoffOf(k) == IF platformKey(batch[k].platform) = "news" THEN 96 ELSE DefaultMaxHours

\* C21: the freshness of a topic (that of its newest dated member) and the
\* freshness in the raw score of an item are never NaN, lie in [0, 1], are
\* exactly 0 when no date is usable or the age is at least maxHours (an item
\* 100 hours old with maxHours = 72), and exactly 1 when the age is not positive.
C21_FreshnessCases ==
    /\ RecordsAligned =>
          \A c \in 1..Len(topicRecords) :
              FreshnessAsStated(topicRecords[c].freshnessScore, AgesOf(MembersOf(c)),
                                DefaultMaxHours)
    /\ spc \notin {"idle", "start"} =>
          \A k \in 1..Len(rawScore) :
              FreshnessOnly(k) =>
                  FreshnessAsStated(FreshnessInRaw(k), AgesOf(<<batch[k]>>), CutoffOf(k))

\* Scenario D: the record of a single item published 100 hours ago
C21_Witness ==
    /\ RecordsAligned
    /\ Len(items) = 1
    /\ items[1].publishedAt = DateHoursAgo(100)
    /\ Len(topicRecords) = 1
    /\ topicRecords[1].freshnessScore = Zero

(***************************************************************************)
(* Properties of malformed metrics                                         *)
(***************************************************************************)
IsFiniteIn01(v) == Len(v) = 2 /\ ~IsNaN(v) /\ NumLe(Zero, v) /\ NumLe(v, One)

\* C22: every raw score is a finite number in [0, 1], and the youtube
\* strength, the news strength and the topicScore of every topic record are
\* finite numbers, whatever the metrics of the items hold.
C22_MalformedMetricsContributeZero ==
    /\ spc \notin {"idle", "start"} =>
          \A k \in 1..Len(rawScore) : IsFiniteIn01(rawScore[k])
    /\ RecordsAligned =>
          \A c \in 1..Len(topicRecords) :
              /\ ~IsNaN(topicRecords[c].scoreBreakdown.youtubeStrength)
              /\ ~IsNaN(topicRecords[c].scoreBreakdown.newsStrength)
              /\ ~IsNaN(topicRecords[c].topicScore)

(***************************************************************************)
(* Termination of scoreItemsComparable                                     *)
(***************************************************************************)
ScoredAll ==
    /\ spc = "returned"
    /\ Len(batch) > 0 => Len(trendScore) = Len(batch)
    /\ \A k \in 1..Len(trendScore) : Len(trendScore[k]) = 2

\* C23: every call of scoreItemsComparable returns, with a trendScore set on
\* every item of the batch, also when items of one platform have missing or
\* malformed metrics or unparseable dates.
C23_ScoringTerminates == <>ScoredAll

(***************************************************************************)
(* buildTrendTopics keeps nothing between invocations                      *)
(***************************************************************************)
\* C24: an invocation with the arguments of the first invocation returns
\* the list the first invocation returned, whether it follows that
\* invocation directly or an invocation with other arguments ran in between.
C24_SameArgumentsSameResult ==
    (pc = "returned" /\ run >= 2 /\ CallArgs = firstCall) => result = firstResult

\* a second invocation has returned the two records of the first
C24_Witness ==
    /\ pc = "returned"
    /\ run = 2
    /\ CallArgs = firstCall
    /\ Len(result) = 2
    /\ result = firstResult
    /\ result[1].topicId # result[2].topicId

(***************************************************************************)
(* Properties of dedupeByPlatformAndUrl                                    *)
(***************************************************************************)
DedupeReturned == dedupePos = Len(dedupeItems)

\* C25 as stated: after dedupeByPlatformAndUrl every surviving item has a
\* non-empty URL and no two surviving items have the same URL.
C25_SurvivorsHaveDistinctUrls ==
    DedupeReturned =>
        /\ \A a \in 1..Len(kept) : ~IsEmptyUrl(kept[a].sourceUrl)
        /\ \A a, b \in 1..Len(kept) : a # b => kept[a].sourceUrl # kept[b].sourceUrl

\* C25 amended: every surviving item has a non-empty URL and no two
\* surviving items have both the same normalised platform and the same
\* canonical URL; one URL survives once for every platform it came from.
C25_SurvivorsHaveDistinctPlatformAndUrl ==
    DedupeReturned =>
        /\ \A a \in 1..Len(kept) : ~IsEmptyUrl(kept[a].sourceUrl)
        /\ \A a, b \in 1..Len(kept) :
              a # b => \/ kept[a].sourceUrl # kept[b].sourceUrl
                       \/ safePlatform(kept[a].platform) # safePlatform(kept[b].platform)
        /\ \A k \in 1..Len(dedupeItems) :
              ~IsEmptyUrl(canonicalizeUrl(dedupeItems[k].sourceUrl)) =>
                  \E a \in 1..Len(kept) :
                      /\ kept[a].sourceUrl = canonicalizeUrl(dedupeItems[k].sourceUrl)
                      /\ safePlatform(kept[a].platform) = safePlatform(dedupeItems[k].platform)

\* three items with one canonical URL, two of them of the platform news:
\* one is dropped, and the survivors are a youtube and a news item that
\* share the URL
C25_Witness ==
    /\ DedupeReturned
    /\ Len(dedupeItems) = 3
    /\ Len(kept) = 2
    /\ kept[1].sourceUrl = kept[2].sourceUrl
    /\ safePlatform(kept[1].platform) # safePlatform(kept[2].platform)
    /\ \A k \in 1..3 : ~IsEmptyUrl(canonicalizeUrl(dedupeItems[k].sourceUrl))

(***************************************************************************)
(* Properties of the news strength                                         *)
(***************************************************************************)
\* C26: the record of a cluster without a member of the platform news has
\* the news strength 0.
C26_NoNewsNoNewsStrength ==
    RecordsAligned =>
        \A c \in 1..Len(topicRecords) :
            CountOf(topicRecords[c].platformCounts, "news") = 0 =>
                topicRecords[c].scoreBreakdown.newsStrength = Zero

(***************************************************************************)
(* Properties of postToBase44WithBackoff                                   *)
(***************************************************************************)
\* C27: a request follows an HTTP response only when that response was
\* rate-limited (status 429 or "rate limit" in the body), a response that is
\* neither OK nor rate-limited ends the call with an error, and at most
\* retries + 1 requests are sent.
C27_RetryOnlyWhenRateLimited ==
    /\ \A k \in 1..(Len(sent) - 1) :
          sent[k].kind = "response" => IsRateLimited(sent[k])
    /\ \A k \in 1..Len(sent) :
          (sent[k].kind = "response" /\ ~IsOk(sent[k]) /\ ~IsRateLimited(sent[k]))
              => (k = Len(sent) /\ postOutcome = "threw")
    /\ Len(sent) <= postRetries + 1

(***************************************************************************)
(* Properties of POST /scan                                                *)
(***************************************************************************)
CountIn(seq, x) == Cardinality({k \in 1..Len(seq) : seq[k] = x})

Authorized == scanInput.authorization = "Bearer " \o SERVICE_TOKEN

HasIds == ~Missing(scanInput.trendRunId) /\ ~Missing(scanInput.projectId)

\* C28: one response per request: 401 for a wrong token, 400 for a missing
\* trendRunId or projectId (no collector, no post), else {ok: true} before
\* any collector or Base44 call; after an ingest failure at most one error
\* callback and no topic-build call, after a topic-build failure no error
\* callback.
C28_OneResponsePerScan ==
    /\ Len(responses) <= 1
    /\ scanPc = "done" =>
          responses = <<IF ~Authorized THEN 401 ELSE IF ~HasIds THEN 400 ELSE 200>>
    /\ (collected \/ posts # << >>) => (responses = <<200>> /\ Authorized /\ HasIds)
    /\ CountIn(posts, "error") <= 1
    /\ failure = "ingest" => CountIn(posts, "topics") = 0
    /\ failure = "topics" => CountIn(posts, "error") = 0
    /\ CountIn(posts, "error") = 1 => failure \in {"pipeline", "ingest"}

\* the ingest call has failed: the response was sent before it, the error
\* callback was posted once and the topic build was not called
C28_Witness ==
    /\ scanPc = "done"
    /\ failure = "ingest"
    /\ responses = <<200>>
    /\ posts = <<"ingest", "error">>

(***************************************************************************)
(* Properties of fetchXTrends                                              *)
(***************************************************************************)
\* every index of iso2s is taken from the counter by at most one worker, and
\* by one once the call has returned
XIndexClaimedOnce ==
    \A idx \in 1..Len(iso2s) :
        LET takers == {k \in 1..Len(claims) : claims[k][1] = idx}
        IN  /\ Cardinality(takers) <= 1
            /\ (xpc = "returned" => Cardinality(takers) = 1)

\* no region is fetched twice within the call
XRegionFetchedOnce == \A k \in 1..Len(iso2s) : CountIn(fetched, iso2s[k]) <= 1

\* the rows of a region appear at most once in the result
XRowsOnce == \A k \in 1..Len(iso2s) : CountIn(out, RowsOf(iso2s[k])[1]) <= 1

\* all workers end and the call returns, whatever the fetches answer
XTerminates == <>(xpc = "returned")

\* C29: for 1 to 4 workers and any interleaving at the awaits, every valid
\* region of the input list is claimed by one worker once, no region is
\* fetched twice in one call and the rows of a region appear at most once
\* in the result.
C29_EachRegionOnce == XIndexClaimedOnce /\ XRegionFetchedOnce /\ XRowsOnce

(***************************************************************************)
(* Properties of the topicIds of one run                                   *)
(***************************************************************************)
\* C30: the topicIds of the records returned by one run are pairwise
\* distinct: two different clusters never yield the same topicId.
C30_TopicIdsDistinct ==
    (pc = "returned" /\ error = "") =>
        \A a, b \in 1..Len(result) : a # b => result[a].topicId # result[b].topicId

====
